---- MODULE Spec2Model ----
(***************************************************************************)
(* sparkify core: workspace preparation (packages/core/src/workspace.ts),  *)
(* OpenAPI bundle resolution (openapi.ts), navigation document loading     *)
(* (docs-json.ts) and the watch-mode rebuild loop (build.ts).              *)
(*                                                                         *)
(* Strings are tuples of one-character strings, so that trimming, case     *)
(* folding, slugging and collation are computed, not assumed.              *)
(***************************************************************************)
EXTENDS Integers, Sequences, FiniteSets, TLC

(***************************************************************************)
(* Characters and strings                                                  *)
(***************************************************************************)
LowerAlpha ==
  <<"a","b","c","d","e","f","g","h","i","j","k","l","m",
    "n","o","p","q","r","s","t","u","v","w","x","y","z">>

UpperAlpha ==
  <<"A","B","C","D","E","F","G","H","I","J","K","L","M",
    "N","O","P","Q","R","S","T","U","V","W","X","Y","Z">>

DigitChars == <<"0","1","2","3","4","5","6","7","8","9">>

Range(s) == { s[i] : i \in DOMAIN s }

IndexIn(c, s) == CHOOSE i \in DOMAIN s : s[i] = c

LowerChars == Range(LowerAlpha)

UpperChars == Range(UpperAlpha)

Digits == Range(DigitChars)

\* String.prototype.toLowerCase / toUpperCase, one character
LowerChar(c) == IF c \in UpperChars THEN LowerAlpha[IndexIn(c, UpperAlpha)] ELSE c

UpperChar(c) == IF c \in LowerChars THEN UpperAlpha[IndexIn(c, LowerAlpha)] ELSE c

ToLowerCase(s) == [i \in DOMAIN s |-> LowerChar(s[i])]

ToUpperCase(s) == [i \in DOMAIN s |-> UpperChar(s[i])]

\* the characters matched by \s that occur in the modelled inputs
IsWhitespace(c) == c \in {" ", "\t"}

StartsWith(s, p) == Len(s) >= Len(p) /\ SubSeq(s, 1, Len(p)) = p

EndsWith(s, p) == Len(s) >= Len(p) /\ SubSeq(s, Len(s) - Len(p) + 1, Len(s)) = p

Includes(s, c) == \E i \in DOMAIN s : s[i] = c

\* String.prototype.trim
Trim(s) ==
  LET keep == { i \in DOMAIN s : ~IsWhitespace(s[i]) }
  IN  IF keep = {} THEN <<>>
      ELSE LET lo == CHOOSE i \in keep : \A j \in keep : i <= j
               hi == CHOOSE i \in keep : \A j \in keep : i >= j
           IN  SubSeq(s, lo, hi)

\* value.replace(/\s+/g, " "): every maximal whitespace run becomes one space
CollapseWhitespace(s) ==
  LET kept == { i \in DOMAIN s : ~IsWhitespace(s[i]) \/ i = 1 \/ ~IsWhitespace(s[i - 1]) }
      nth(k) == CHOOSE i \in kept : Cardinality({ j \in kept : j <= i }) = k
  IN  [k \in 1..Cardinality(kept) |->
         IF IsWhitespace(s[nth(k)]) THEN " " ELSE s[nth(k)]]

\* value.replace(/^\/+/, "")
StripLeadingSlashes(s) ==
  LET rest == { i \in DOMAIN s : s[i] # "/" }
  IN  IF rest = {} THEN <<>>
      ELSE SubSeq(s, CHOOSE i \in rest : \A j \in rest : i <= j, Len(s))

\* value.replace(/\/+$/, "")
StripTrailingSlashes(s) ==
  LET rest == { i \in DOMAIN s : s[i] # "/" }
  IN  IF rest = {} THEN <<>>
      ELSE SubSeq(s, 1, CHOOSE i \in rest : \A j \in rest : i >= j)

RECURSIVE NatToString(_)
\* template-literal rendering of a non-negative integer
NatToString(n) ==
  IF n < 10 THEN << DigitChars[n + 1] >>
  ELSE NatToString(n \div 10) \o << DigitChars[(n % 10) + 1] >>

RECURSIVE Flatten(_)
\* Array.prototype.join("") of a list of strings
Flatten(ss) == IF ss = <<>> THEN <<>> ELSE Head(ss) \o Flatten(Tail(ss))

(***************************************************************************)
(* String.prototype.localeCompare under the root collation: at the primary *)
(* level white space sorts before punctuation, punctuation before digits   *)
(* and digits before letters, and letters compare without case; case       *)
(* (lower first) only breaks ties between otherwise equal strings.         *)
(***************************************************************************)
CollationOrder ==
  <<"\t"," ","_","-",".","/",":">> \o DigitChars \o LowerAlpha

\* the weight of a character at the primary level, and at the level of case
\* the primary weight of each character: its place in the order
PrimaryWeights ==
  [c \in Range(CollationOrder) |-> IndexIn(c, CollationOrder)] @@ << >>

Weight(level, c) ==
  IF level = "primary" THEN PrimaryWeights[LowerChar(c)]
  ELSE IF c \in UpperChars THEN 1 ELSE 0

Minimum(S) == CHOOSE x \in S : \A y \in S : x <= y

\* the positions at which two strings differ at a level
Mismatches(level, a, b) ==
  { k \in (DOMAIN a) \cap (DOMAIN b) :
      a[k] # b[k] /\ Weight(level, a[k]) # Weight(level, b[k]) }

\* decided by the first mismatch, or by length when one string is a prefix of the other
CompareFrom(level, a, b, diff) ==
  IF diff # {}
  THEN (IF Weight(level, a[Minimum(diff)]) < Weight(level, b[Minimum(diff)]) THEN -1 ELSE 1)
  ELSE IF Len(a) < Len(b) THEN -1 ELSE IF Len(a) > Len(b) THEN 1 ELSE 0

CompareWeights(level, a, b) == CompareFrom(level, a, b, Mismatches(level, a, b))

\* case decides only between strings that are equal at the primary level
BreakTie(primary, a, b) == IF primary # 0 THEN primary ELSE CompareWeights("case", a, b)

LocaleCompare(a, b) == BreakTie(CompareWeights("primary", a, b), a, b)

(***************************************************************************)
(* openapi.ts: slugs, operation pages, bundles                             *)
(***************************************************************************)
SlugMaxLen == 64

HTTP_METHODS ==
  << <<"g","e","t">>, <<"p","o","s","t">>, <<"p","u","t">>,
     <<"p","a","t","c","h">>, <<"d","e","l","e","t","e">>,
     <<"o","p","t","i","o","n","s">>, <<"h","e","a","d">> >>

\* value.replace(/[^a-z0-9]+/g, "-"): every maximal run of other characters becomes one "-"
ReplaceNonAlnumRuns(s) ==
  LET alnum(i) == s[i] \in LowerChars \/ s[i] \in Digits
      kept == { i \in DOMAIN s : alnum(i) \/ i = 1 \/ alnum(i - 1) }
      nth(k) == CHOOSE i \in kept : Cardinality({ j \in kept : j <= i }) = k
  IN  [k \in 1..Cardinality(kept) |-> IF alnum(nth(k)) THEN s[nth(k)] ELSE "-"]

\* value.replace(/^-+|-+$/g, "")
StripDashes(s) ==
  LET rest == { i \in DOMAIN s : s[i] # "-" }
  IN  IF rest = {} THEN <<>>
      ELSE SubSeq(s, CHOOSE i \in rest : \A j \in rest : i <= j,
                     CHOOSE i \in rest : \A j \in rest : i >= j)

slugify(value) ==
  LET stripped == StripDashes(ReplaceNonAlnumRuns(ToLowerCase(value)))
  IN  IF Len(stripped) > SlugMaxLen THEN SubSeq(stripped, 1, SlugMaxLen) ELSE stripped

toApiRoot(apiRoot) ==
  LET prefixed == IF StartsWith(apiRoot, <<"/">>) THEN apiRoot ELSE <<"/">> \o apiRoot
  IN  IF EndsWith(prefixed, <<"/">>) /\ prefixed # <<"/">>
      THEN SubSeq(prefixed, 1, Len(prefixed) - 1)
      ELSE prefixed

GeneralTag == <<"G","e","n","e","r","a","l">>

\* the (path, method, operation) triples in the order the two loops visit them
RECURSIVE OperationsInOrder(_)
OperationsInOrder(paths) ==
  IF paths = <<>> THEN <<>>
  ELSE LET item == Head(paths)
           present == { m \in DOMAIN HTTP_METHODS :
                          \E op \in item.ops : op.method = HTTP_METHODS[m] }
           nth(k) == CHOOSE m \in present : Cardinality({ j \in present : j <= m }) = k
           opOf(m) == CHOOSE op \in item.ops : op.method = HTTP_METHODS[m]
       IN  [k \in 1..Cardinality(present) |->
              [rawPath |-> item.path, method |-> HTTP_METHODS[nth(k)], operation |-> opOf(nth(k))]]
           \o OperationsInOrder(Tail(paths))

\* the while loop over usedPaths: the first free "<base>-<n>", n = 2, 3, ...
UniquePagePath(base, usedPaths) ==
  IF base \notin usedPaths THEN base
  ELSE LET cand(n) == base \o <<"-">> \o NatToString(n)
           n0 == CHOOSE n \in 2..(Cardinality(usedPaths) + 2) :
                   /\ cand(n) \notin usedPaths
                   /\ \A m \in 2..(n - 1) : cand(m) \in usedPaths
       IN  cand(n0)

OperationBasePath(normalizedApiRoot, visit) ==
  LET operation == visit.operation
      tag == IF operation.tags # <<>> THEN operation.tags[1] ELSE GeneralTag
      tagSlugRaw == slugify(tag)
      tagSlug == IF tagSlugRaw # <<>> THEN tagSlugRaw ELSE ToLowerCase(GeneralTag)
      idSource == IF operation.operationId # <<>> THEN operation.operationId
                  ELSE visit.method \o <<"-">> \o visit.rawPath
      idSlugRaw == slugify(idSource)
      idBase == IF idSlugRaw # <<>> THEN idSlugRaw
                ELSE visit.method \o <<"-","e","n","d","p","o","i","n","t">>
  IN  normalizedApiRoot \o <<"/">> \o tagSlug \o <<"/">> \o idBase

RECURSIVE AssignOperationPages(_, _, _)
AssignOperationPages(visits, normalizedApiRoot, usedPaths) ==
  IF visits = <<>> THEN <<>>
  ELSE LET visit == Head(visits)
           pagePath == UniquePagePath(OperationBasePath(normalizedApiRoot, visit), usedPaths)
           page == [method |-> ToUpperCase(visit.method),
                    path |-> visit.rawPath,
                    tag |-> IF visit.operation.tags # <<>> THEN visit.operation.tags[1]
                            ELSE GeneralTag,
                    pagePath |-> pagePath]
       IN  <<page>> \o AssignOperationPages(Tail(visits), normalizedApiRoot,
                                            usedPaths \cup {pagePath})

\* the comparator of the final sort: tag, then path, then method
CompareOperations(left, right) ==
  IF left.tag # right.tag THEN LocaleCompare(left.tag, right.tag)
  ELSE IF left.path # right.path THEN LocaleCompare(left.path, right.path)
  ELSE LocaleCompare(left.method, right.method)

ComparePagePaths(left, right) == LocaleCompare(left.pagePath, right.pagePath)

\* the comparator of sortPages (docs-json.ts)
CompareNavPages(left, right) ==
  LET index == <<"i","n","d","e","x">>
      slashIndex == <<"/">> \o index
  IN  IF EndsWith(left, slashIndex) /\ ~EndsWith(right, slashIndex) THEN -1
      ELSE IF ~EndsWith(left, slashIndex) /\ EndsWith(right, slashIndex) THEN 1
      ELSE IF left = index THEN -1
      ELSE IF right = index THEN 1
      ELSE LocaleCompare(left, right)

Compare(by, left, right) ==
  CASE by = "operation" -> CompareOperations(left, right)
    [] by = "pagePath" -> ComparePagePaths(left, right)
    [] by = "navPage" -> CompareNavPages(left, right)
    [] by = "string" -> LocaleCompare(left, right)

\* Array.prototype.sort is stable: element j comes before element i when it compares lower,
\* or compares equal and preceded it in the input (c is the comparison of j with i)
ComesBefore(c, j, i) == j # i /\ (c < 0 \/ (c = 0 /\ j < i))

\* how many elements come before each element
Ranks(by, s) ==
  [i \in DOMAIN s |->
     Cardinality({ j \in DOMAIN s : ComesBefore(Compare(by, s[j], s[i]), j, i) })] \o <<>>

\* the element that k - 1 others come before takes place k
Arrange(s, ranks) ==
  [k \in DOMAIN s |-> s[CHOOSE i \in DOMAIN s : ranks[i] = k - 1]] \o <<>>

SortSequence(by, s) == Arrange(s \o <<>>, Ranks(by, s \o <<>>))

\* the pages in the order they were pushed, the final sort left out
buildOperationPages_Unsorted(schema, apiRoot) ==
  LET normalizedApiRoot ==
        LET root == toApiRoot(apiRoot)
        IN  IF StartsWith(root, <<"/">>) THEN Tail(root) ELSE root
  IN  AssignOperationPages(OperationsInOrder(schema.paths), normalizedApiRoot, {})

buildOperationPages(schema, apiRoot) ==
  LET normalizedApiRoot ==
        LET root == toApiRoot(apiRoot)
        IN  IF StartsWith(root, <<"/">>) THEN Tail(root) ELSE root
  IN  SortSequence("operation",
                   AssignOperationPages(OperationsInOrder(schema.paths), normalizedApiRoot, {}))

countOperations(schema) == Len(OperationsInOrder(schema.paths))

EntrySignature(entry) == entry.id \o <<":", ":">> \o entry.source

RECURSIVE dedupeEntries(_)
\* keeps the first entry of every signature, in input order
dedupeEntries(entries) ==
  IF entries = <<>> THEN <<>>
  ELSE LET front == dedupeEntries(SubSeq(entries, 1, Len(entries) - 1))
           last == entries[Len(entries)]
       IN  IF \E i \in DOMAIN front : EntrySignature(front[i]) = EntrySignature(last)
           THEN front
           ELSE Append(front, last)

(***************************************************************************)
(* docs-json.ts: navigation documents                                      *)
(*                                                                         *)
(* A navigation item is a record: [kind |-> "page", ref] for a string      *)
(* entry, [kind |-> "group", group, openapi, pages] for a group.  An       *)
(* undefined openapi and an undefined or empty pages list are <<>>: the    *)
(* code treats them alike (falsy, or an empty loop).                       *)
(***************************************************************************)
PageItem(ref) == [kind |-> "page", ref |-> ref]

GroupItem(name, openapi, pages) ==
  [kind |-> "group", group |-> name, openapi |-> openapi, pages |-> pages]

NullItem == [kind |-> "null"]

MethodNames == { ToUpperCase(HTTP_METHODS[m]) : m \in DOMAIN HTTP_METHODS }

\* /^(GET|POST|PUT|PATCH|DELETE|OPTIONS|HEAD)\s+\/.+/i.test(value.trim())
isOperationReference(value) ==
  LET trimmed == Trim(value)
  IN  \E m \in MethodNames :
        /\ Len(trimmed) > Len(m)
        /\ ToUpperCase(SubSeq(trimmed, 1, Len(m))) = m
        /\ LET rest == SubSeq(trimmed, Len(m) + 1, Len(trimmed))
               solid == { i \in DOMAIN rest : ~IsWhitespace(rest[i]) }
           IN  /\ solid # {}
               /\ LET first == CHOOSE i \in solid : \A j \in solid : i <= j
                  IN  /\ first > 1
                      /\ rest[first] = "/"
                      /\ Len(rest) > first

normalizeRelPath(value) == value

MdxSuffix == <<".","m","d","x">>

\* normalizeRelPath(relativePath).replace(/\.mdx$/i, "")
toPagePath(relativePath) ==
  LET rel == normalizeRelPath(relativePath)
  IN  IF Len(rel) >= Len(MdxSuffix)
         /\ ToLowerCase(SubSeq(rel, Len(rel) - Len(MdxSuffix) + 1, Len(rel))) = MdxSuffix
      THEN SubSeq(rel, 1, Len(rel) - Len(MdxSuffix))
      ELSE rel

RECURSIVE SplitOn(_, _)
\* String.prototype.split(separator) for a one-character separator
SplitOn(s, c) ==
  LET hits == { i \in DOMAIN s : s[i] = c }
  IN  IF hits = {} THEN << s >>
      ELSE LET first == CHOOSE i \in hits : \A j \in hits : i <= j
           IN  << SubSeq(s, 1, first - 1) >> \o SplitOn(SubSeq(s, first + 1, Len(s)), c)

RECURSIVE JoinWith(_, _)
JoinWith(parts, sep) ==
  IF parts = <<>> THEN <<>>
  ELSE IF Len(parts) = 1 THEN parts[1]
  ELSE parts[1] \o sep \o JoinWith(Tail(parts), sep)

prettyTitle(value) ==
  LET spaced == [i \in DOMAIN value |-> IF value[i] \in {"-", "_"} THEN " " ELSE value[i]]
      chunks == SelectSeq(SplitOn(spaced, " "), LAMBDA chunk : chunk # <<>>)
      capital(chunk) == << UpperChar(chunk[1]) >> \o Tail(chunk)
  IN  JoinWith([i \in DOMAIN chunks |-> capital(chunks[i])], <<" ">>)

sortPages(pagePaths) == SortSequence("navPage", pagePaths)

GettingStarted == <<"G","e","t","t","i","n","g"," ","S","t","a","r","t","e","d">>

IndexPage == <<"i","n","d","e","x">>

RECURSIVE DistinctInOrder(_)
\* the keys of a Map in insertion order
DistinctInOrder(s) ==
  IF s = <<>> THEN <<>>
  ELSE LET front == DistinctInOrder(SubSeq(s, 1, Len(s) - 1))
       IN  IF s[Len(s)] \in Range(front) THEN front ELSE Append(front, s[Len(s)])

\* the directory groups in the order their first pages were met, the sort left out
buildNavigation_Unsorted(pagePaths, dirTitleMap) ==
  LET rootPages == sortPages(SelectSeq(pagePaths, LAMBDA page : ~Includes(page, "/")))
      nested == SelectSeq(pagePaths, LAMBDA page : Includes(page, "/"))
      topOf(page) == SplitOn(page, "/")[1]
      tops == DistinctInOrder([i \in DOMAIN nested |-> topOf(nested[i])])
      title(top) == IF top \in DOMAIN dirTitleMap THEN dirTitleMap[top] ELSE prettyTitle(top)
      pagesOf(top) == sortPages(SelectSeq(nested, LAMBDA page : topOf(page) = top))
      asItems(pages) == [i \in DOMAIN pages |-> PageItem(pages[i])]
  IN  (IF rootPages # <<>> THEN << GroupItem(GettingStarted, <<>>, asItems(rootPages)) >>
       ELSE <<>>)
      \o [i \in DOMAIN tops |-> GroupItem(title(tops[i]), <<>>, asItems(pagesOf(tops[i])))]

buildNavigation(pagePaths, dirTitleMap) ==
  LET rootPages == sortPages(SelectSeq(pagePaths, LAMBDA page : ~Includes(page, "/")))
      nested == SelectSeq(pagePaths, LAMBDA page : Includes(page, "/"))
      topOf(page) == SplitOn(page, "/")[1]
      tops == SortSequence("string", DistinctInOrder([i \in DOMAIN nested |-> topOf(nested[i])]))
      title(top) == IF top \in DOMAIN dirTitleMap THEN dirTitleMap[top] ELSE prettyTitle(top)
      pagesOf(top) == sortPages(SelectSeq(nested, LAMBDA page : topOf(page) = top))
      asItems(pages) == [i \in DOMAIN pages |-> PageItem(pages[i])]
  IN  (IF rootPages # <<>> THEN << GroupItem(GettingStarted, <<>>, asItems(rootPages)) >>
       ELSE <<>>)
      \o [i \in DOMAIN tops |-> GroupItem(title(tops[i]), <<>>, asItems(pagesOf(tops[i])))]

DocumentationGroup == <<"D","o","c","u","m","e","n","t","a","t","i","o","n">>

RECURSIVE normalizeNavigationPages(_)
RECURSIVE normalizeNavigationGroup(_)
\* string entries are kept, object entries are normalized and dropped when null
normalizeNavigationPages(value) ==
  IF value = <<>> THEN <<>>
  ELSE LET item == Head(value)
           rest == normalizeNavigationPages(Tail(value))
       IN  IF item.kind = "page" THEN << item >> \o rest
           ELSE LET normalized == normalizeNavigationGroup(item)
                IN  IF normalized = NullItem THEN rest ELSE << normalized >> \o rest

\* a value that is not an object, or an object with neither pages nor openapi, gives null
normalizeNavigationGroup(raw) ==
  IF raw.kind # "group" THEN NullItem
  ELSE LET group == IF Trim(raw.group) # <<>> THEN Trim(raw.group) ELSE DocumentationGroup
           openapi == Trim(raw.openapi)
           pages == normalizeNavigationPages(raw.pages)
       IN  IF pages = <<>> /\ openapi = <<>> THEN NullItem
           ELSE GroupItem(group, openapi, pages)

(***************************************************************************)
(* The raw navigation value of a document: undefined, an array, or an      *)
(* object given by its members in insertion order.  A member's value is an *)
(* array, or an object of which only the fields the normalizer reads are   *)
(* kept (openapi, pages); an array item that is an object without group,   *)
(* pages and openapi (a tab) has kind "tab".                               *)
(***************************************************************************)
UndefinedValue == [kind |-> "undefined"]

ArrayValue(items) == [kind |-> "array", items |-> items]

ObjectValue(members) == [kind |-> "object", members |-> members]

Member(key, value) == [key |-> key, value |-> value]

BareGroup(openapi, pages) == [kind |-> "bare", openapi |-> openapi, pages |-> pages]

TabItem(tab, groups) == [kind |-> "tab", tab |-> tab, groups |-> groups]

GroupsKey == <<"g","r","o","u","p","s">>

\* value.map(normalizeNavigationGroup).filter(Boolean)
NormalizeGroups(items) ==
  SelectSeq([i \in DOMAIN items |-> normalizeNavigationGroup(items[i])],
            LAMBDA group : group # NullItem)

\* one turn of the loop over Object.entries(obj): the group pushed, or null when none is
KeyedGroup(member) ==
  IF member.key = GroupsKey THEN NullItem
  ELSE IF member.value.kind = "array"
       THEN GroupItem(member.key, <<>>,
                      SelectSeq(member.value.items, LAMBDA item : item.kind = "page"))
  ELSE IF member.value.kind = "bare"
       THEN normalizeNavigationGroup(
              GroupItem(member.key, member.value.openapi, member.value.pages))
  ELSE NullItem

\* obj.groups when it is an array
ArrayGroups(members) ==
  SelectSeq(members, LAMBDA member : member.key = GroupsKey /\ member.value.kind = "array")

normalizeNavigation(value) ==
  IF value.kind = "undefined" THEN <<>>
  ELSE IF value.kind = "array" THEN NormalizeGroups(value.items)
  ELSE IF ArrayGroups(value.members) # <<>>
       THEN NormalizeGroups(ArrayGroups(value.members)[1].value.items)
  ELSE SelectSeq([i \in DOMAIN value.members |-> KeyedGroup(value.members[i])],
                 LAMBDA group : group # NullItem)

\* docsConfigSchema: navigation is z.array(docsGroupSchema).optional()
SchemaAcceptsNavigation(value) == value.kind \in {"undefined", "array"}

(***************************************************************************)
(* A navigation document on disk is "absent", "invalid" (not JSON, not an  *)
(* object, or rejected by docsConfigSchema for a field other than          *)
(* navigation) or a record with its name and raw navigation value.         *)
(***************************************************************************)
Absent == [state |-> "absent"]

Invalid == [state |-> "invalid"]

\* a document that parses as a JSON object with a name, holding a raw navigation value
ParsedDoc(name, value) == [state |-> "valid", name |-> name, navigation |-> value]

ValidDoc(name, navigation) == ParsedDoc(name, ArrayValue(navigation))

\* result: null (ENOENT), a thrown InvalidDocsJson, or the normalized config
loadJsonConfigAtPath(file, source) ==
  IF file.state = "absent" THEN [outcome |-> "null"]
  ELSE IF file.state = "invalid" THEN [outcome |-> "throw", error |-> "InvalidDocsJson"]
  ELSE IF ~SchemaAcceptsNavigation(file.navigation)
  THEN [outcome |-> "throw", error |-> "InvalidDocsJson"]
  ELSE [outcome |-> "config",
        source |-> source,
        config |-> [name |-> file.name,
                    navigation |-> normalizeNavigation(file.navigation),
                    configSource |-> source]]

\* options.preferDocsJson ?? true, options.allowMintJson ?? true
OptionOrTrue(option) == IF option = "undefined" THEN TRUE ELSE option = "true"

\* a candidate list in discovery order, whatever the flag says
LoadCandidates_DocsFirst(options) == << "docs.json", "mint.json" >>

\* the candidate list of loadDocsConfig, in the order it is tried
LoadCandidates(options) ==
  IF OptionOrTrue(options.preferDocsJson) THEN << "docs.json", "mint.json" >>
  ELSE << "mint.json", "docs.json" >>

\* one candidate: tryDocsJson or tryMintJson; reads lists the files opened
TryCandidate(candidate, docsFile, mintFile, options) ==
  IF candidate = "docs.json"
  THEN [result |-> loadJsonConfigAtPath(docsFile, "docs.json"), reads |-> << "docs.json" >>]
  ELSE IF ~OptionOrTrue(options.allowMintJson)
       THEN [result |-> [outcome |-> "null"], reads |-> <<>>]
       ELSE [result |-> loadJsonConfigAtPath(mintFile, "mint.json"), reads |-> << "mint.json" >>]

RECURSIVE RunCandidates(_, _, _, _, _)
RunCandidates(candidates, docsFile, mintFile, options, reads) ==
  IF candidates = <<>>
  THEN [outcome |-> "config", source |-> "generated", config |-> NullItem, reads |-> reads]
  ELSE LET try == TryCandidate(Head(candidates), docsFile, mintFile, options)
           seen == reads \o try.reads
       IN  IF try.result.outcome = "null"
           THEN RunCandidates(Tail(candidates), docsFile, mintFile, options, seen)
           ELSE [outcome |-> try.result.outcome,
                 source |-> IF try.result.outcome = "config" THEN try.result.source ELSE "none",
                 config |-> IF try.result.outcome = "config" THEN try.result.config ELSE NullItem,
                 reads |-> seen]

loadDocsConfig(docsFile, mintFile, options) ==
  RunCandidates(LoadCandidates(options), docsFile, mintFile, options, <<>>)

RECURSIVE collectOpenApiRefs(_)
\* the openapi fields of the nested groups, in visiting order
collectOpenApiRefs(items) ==
  IF items = <<>> THEN <<>>
  ELSE LET item == Head(items)
       IN  (IF item.kind = "group"
            THEN (IF item.openapi # <<>> THEN << item.openapi >> ELSE <<>>)
                 \o collectOpenApiRefs(item.pages)
            ELSE <<>>)
           \o collectOpenApiRefs(Tail(items))

\* a Set keeps the first insertion of every value
collectNavigationOpenApiSources(docsJson) ==
  DistinctInOrder(collectOpenApiRefs(docsJson.navigation))

(***************************************************************************)
(* openapi.ts: resolveOpenApiBundles                                       *)
(***************************************************************************)
ApiReferenceTitle == <<"A","P","I"," ","R","e","f","e","r","e","n","c","e">>

Basename(source) == LET parts == SplitOn(source, "/") IN parts[Len(parts)]

\* value.replace(/\.(json|yaml|yml)$/i, "")
StripSchemaExtension(name) ==
  LET exts == { <<".","j","s","o","n">>, <<".","y","a","m","l">>, <<".","y","m","l">> }
      hit == { e \in exts : EndsWith(ToLowerCase(name), e) }
  IN  IF hit = {} THEN name
      ELSE SubSeq(name, 1, Len(name) - Len(CHOOSE e \in hit : TRUE))

ApiId == <<"a","p","i">>

deriveNavigationEntries(docsJson, defaultRoute) ==
  LET sources == collectNavigationOpenApiSources(docsJson)
      idOf(source) == LET slug == slugify(StripSchemaExtension(Basename(source)))
                      IN  IF slug # <<>> THEN slug ELSE ApiId
  IN  [i \in DOMAIN sources |->
         [id |-> idOf(sources[i]), source |-> sources[i],
          route |-> defaultRoute, title |-> ApiReferenceTitle]]

\* path.join(outputDir, `${slugify(entry.id) || "api"}.json`), relative to the workspace root
BundlePath(entry) ==
  <<"o","p","e","n","a","p","i","/">>
    \o (IF slugify(entry.id) # <<>> THEN slugify(entry.id) ELSE ApiId)
    \o <<".","j","s","o","n">>

\* one iteration of the loop over combinedEntries, for a readable and valid source
BuildBundle(entry, schema, apiMode, apiRoot, defaultRoute) ==
  [id |-> entry.id,
   source |-> entry.source,
   route |-> entry.route,
   outputAbsolutePath |-> BundlePath(entry),
   operations |-> countOperations(schema),
   operationPages |-> IF apiMode = "endpoint-pages" THEN buildOperationPages(schema, apiRoot)
                      ELSE <<>>]

JsonLooking(raw) ==
  StartsWith(Trim(raw.opening), <<"{">>) \/ StartsWith(Trim(raw.opening), <<"[">>)

\* "parsed", or the error thrown: JSON.parse throws a SyntaxError of its own
parseSource(raw) ==
  IF JsonLooking(raw) THEN (IF raw.json THEN "parsed" ELSE "SyntaxError")
  ELSE IF raw.yaml THEN "parsed" ELSE "InvalidOpenApi"

\* schemaFiles maps a source locator to its text and schema; a source outside its domain
\* cannot be read.  Every error of the loop body leaves as InvalidOpenApi.
resolveOpenApiBundles(docsJson, entries, schemaFiles, apiMode, apiRoot) ==
  LET defaultRoute == IF apiMode = "single-page" THEN <<"/","a","p","i">> ELSE apiRoot
      combinedEntries == dedupeEntries(entries \o deriveNavigationEntries(docsJson, defaultRoute))
  IN  IF \E i \in DOMAIN combinedEntries :
           \/ combinedEntries[i].source \notin DOMAIN schemaFiles
           \/ parseSource(schemaFiles[combinedEntries[i].source].raw) # "parsed"
      THEN [outcome |-> "throw", error |-> "InvalidOpenApi", bundles |-> <<>>]
      ELSE [outcome |-> "ok", error |-> "none",
            bundles |-> [i \in DOMAIN combinedEntries |->
                           BuildBundle(combinedEntries[i], schemaFiles[combinedEntries[i].source],
                                       apiMode, apiRoot, defaultRoute)]]

(***************************************************************************)
(* workspace.ts                                                            *)
(***************************************************************************)
DefaultApiRoot == <<"/","a","p","i","-","r","e","f","e","r","e","n","c","e">>

normalizeRoutePath(route) == StripTrailingSlashes(StripLeadingSlashes(Trim(route)))

ApiRootPath(config) ==
  normalizeRoutePath(IF config.api.apiRoot # <<>> THEN config.api.apiRoot ELSE DefaultApiRoot)

\* the segments of a path
Segments(p) == SelectSeq(SplitOn(p, "/"), LAMBDA part : part # <<>>)

\* how many leading segments two segment lists share
SharedSegments(a, b) ==
  Cardinality({ k \in (DOMAIN a) \cap (DOMAIN b) : \A j \in 1..k : a[j] = b[j] })

RECURSIVE Collapse(_, _, _)
\* path.normalize over the segments of a path: "." goes, ".." takes the segment before it,
\* or stays when a relative path has none left to take
Collapse(done, rest, absolute) ==
  IF rest = <<>> THEN done
  ELSE IF Head(rest) = <<".">> THEN Collapse(done, Tail(rest), absolute)
  ELSE IF Head(rest) # <<".",".">> THEN Collapse(Append(done, Head(rest)), Tail(rest), absolute)
  ELSE IF done # <<>> /\ done[Len(done)] # <<".",".">>
       THEN Collapse(SubSeq(done, 1, Len(done) - 1), Tail(rest), absolute)
  ELSE IF absolute THEN Collapse(done, Tail(rest), absolute)
  ELSE Collapse(Append(done, Head(rest)), Tail(rest), absolute)

\* path.join of non-empty POSIX parts, already concatenated with "/": the normalized path
PathNormalize(p) ==
  IF \A i \in 1..(Len(p) - 1) : ~(p[i] = "." /\ p[i + 1] \in { ".", "/" })
  THEN p
  ELSE (IF StartsWith(p, <<"/">>) THEN <<"/">> ELSE <<>>)
       \o JoinWith(Collapse(<<>>, Segments(p), StartsWith(p, <<"/">>)), <<"/">>)

\* path.relative(from, to) for absolute POSIX paths
PathRelative(from, to) ==
  JoinWith([i \in 1..(Len(Segments(from)) - SharedSegments(Segments(from), Segments(to)))
              |-> <<".",".">>]
           \o SubSeq(Segments(to), SharedSegments(Segments(from), Segments(to)) + 1,
                     Len(Segments(to))),
           <<"/">>)

\* config.fastapi when no export is configured
NoFastapi == [kind |-> "undefined"]

\* config.fastapi; exportPath is <<>> when undefined
Fastapi(exportPath) == [kind |-> "value", exportPath |-> exportPath]

OpenapiJson == <<"o","p","e","n","a","p","i",".","j","s","o","n">>

sanitizeFastApiExportRelativePath(config) ==
  LET configuredExportPath == IF config.fastapi.exportPath # <<>> THEN config.fastapi.exportPath
                              ELSE config.docsDir \o <<"/">> \o OpenapiJson
      relative == PathRelative(config.docsDir, configuredExportPath)
  IN  IF StartsWith(relative, <<".",".">>) \/ StartsWith(relative, <<"/">>)
      THEN OpenapiJson
      ELSE relative

\* line 422: `if (config.fastapi)`
ExportNeeded(config) == config.fastapi.kind = "value"

\* fastApiSource is <<>> when no schema was exported
ensureOpenApiEntries(config, fastApiSource) ==
  IF Len(config.openapi) > 0 THEN config.openapi
  ELSE IF fastApiSource = <<>> THEN <<>>
  ELSE << [id |-> ApiId, source |-> fastApiSource,
           route |-> IF config.api.mode = "single-page" THEN <<"/","a","p","i">>
                     ELSE config.api.apiRoot,
           title |-> ApiReferenceTitle] >>

toOperationReferenceKey(method, routePath) == Trim(ToUpperCase(method) \o <<" ">> \o routePath)

RECURSIVE AllOperationPages(_)
\* the operations of all bundles in the order the nested loops visit them
AllOperationPages(bundles) ==
  IF bundles = <<>> THEN <<>>
  ELSE Head(bundles).operationPages \o AllOperationPages(Tail(bundles))

\* a map that hands every key the page of the first operation visited
buildOperationReferenceMap_FirstPage(bundles) ==
  LET ops == AllOperationPages(bundles)
      keys == { toOperationReferenceKey(ops[i].method, ops[i].path) : i \in DOMAIN ops }
  IN  [key \in keys |-> ops[1].pagePath]

\* Map.set in visiting order: the last operation with a key keeps it
buildOperationReferenceMap(bundles) ==
  LET ops == AllOperationPages(bundles)
      keyOf(i) == toOperationReferenceKey(ops[i].method, ops[i].path)
      keys == { keyOf(i) : i \in DOMAIN ops }
      last(key) == CHOOSE i \in DOMAIN ops :
                     keyOf(i) = key /\ \A j \in DOMAIN ops : keyOf(j) = key => j <= i
  IN  [key \in keys |-> ops[last(key)].pagePath]

RECURSIVE rewriteOperationReferencesInItems_Drops(_, _)
\* a rewrite that drops an unresolved reference instead of recording it
rewriteOperationReferencesInItems_Drops(items, operationMap) ==
  IF items = <<>> THEN [items |-> <<>>, unresolved |-> <<>>]
  ELSE LET item == Head(items)
           rest == rewriteOperationReferencesInItems_Drops(Tail(items), operationMap)
       IN  IF item.kind = "page"
           THEN IF ~isOperationReference(item.ref)
                THEN [items |-> << item >> \o rest.items, unresolved |-> rest.unresolved]
                ELSE LET normalizedRef == CollapseWhitespace(Trim(item.ref))
                     IN  IF normalizedRef \in DOMAIN operationMap
                         THEN [items |-> << PageItem(operationMap[normalizedRef]) >> \o rest.items,
                               unresolved |-> rest.unresolved]
                         ELSE rest
           ELSE LET inner == rewriteOperationReferencesInItems_Drops(item.pages, operationMap)
                IN  [items |-> << [item EXCEPT !.pages = inner.items] >> \o rest.items,
                     unresolved |-> inner.unresolved \o rest.unresolved]

RECURSIVE rewriteOperationReferencesInItems(_, _)
\* returns the rewritten items and the unresolved references, in visiting order
rewriteOperationReferencesInItems(items, operationMap) ==
  IF items = <<>> THEN [items |-> <<>>, unresolved |-> <<>>]
  ELSE LET item == Head(items)
           rest == rewriteOperationReferencesInItems(Tail(items), operationMap)
       IN  IF item.kind = "page"
           THEN IF ~isOperationReference(item.ref)
                THEN [items |-> << item >> \o rest.items, unresolved |-> rest.unresolved]
                ELSE LET normalizedRef == CollapseWhitespace(Trim(item.ref))
                     IN  IF normalizedRef \in DOMAIN operationMap
                         THEN [items |-> << PageItem(operationMap[normalizedRef]) >> \o rest.items,
                               unresolved |-> rest.unresolved]
                         ELSE [items |-> << item >> \o rest.items,
                               unresolved |-> << normalizedRef >> \o rest.unresolved]
           ELSE LET inner == rewriteOperationReferencesInItems(item.pages, operationMap)
                IN  [items |-> << [item EXCEPT !.pages = inner.items] >> \o rest.items,
                     unresolved |-> inner.unresolved \o rest.unresolved]

\* throws InvalidDocsJson when any reference is unresolved
rewriteOperationReferences(docsJson, bundles) ==
  LET rewritten == rewriteOperationReferencesInItems(docsJson.navigation,
                                                     buildOperationReferenceMap(bundles))
  IN  IF Len(rewritten.unresolved) > 0
      THEN [outcome |-> "throw", navigation |-> rewritten.items]
      ELSE [outcome |-> "ok", navigation |-> rewritten.items]

RECURSIVE collectNavigationRefs(_)
\* every string entry of the tree, in visiting order
collectNavigationRefs(items) ==
  IF items = <<>> THEN <<>>
  ELSE (IF Head(items).kind = "page" THEN << Head(items).ref >>
        ELSE collectNavigationRefs(Head(items).pages))
       \o collectNavigationRefs(Tail(items))

hasApiReferenceNavigation(docsJson, apiRootPath) ==
  \/ \E i \in DOMAIN docsJson.navigation : docsJson.navigation[i].openapi # <<>>
  \/ LET refs == collectNavigationRefs(docsJson.navigation)
     IN  \E i \in DOMAIN refs :
           /\ refs[i] # <<>>
           /\ (refs[i] = apiRootPath \/ StartsWith(refs[i], apiRootPath \o <<"/">>))

IntroductionPath(apiRootPath) ==
  apiRootPath \o <<"/","i","n","t","r","o","d","u","c","t","i","o","n">>

buildGeneratedApiNavigation(apiRootPath, bundles) ==
  LET ops == AllOperationPages(bundles)
      tags == SortSequence("string", DistinctInOrder([i \in DOMAIN ops |-> ops[i].tag]))
      tagged(tag) == SelectSeq(ops, LAMBDA op : op.tag = tag)
      pagesOf(tag) == [i \in DOMAIN tagged(tag) |-> PageItem(tagged(tag)[i].pagePath)]
      introGroup == GroupItem(<<"A","P","I"," ","D","o","c","u","m","e","n","t","a","t","i","o","n">>,
                              <<>>, << PageItem(IntroductionPath(apiRootPath)) >>)
  IN  << introGroup >>
      \o [i \in DOMAIN tags |->
            GroupItem(tags[i] \o <<" ","E","n","d","p","o","i","n","t","s">>, <<>>, pagesOf(tags[i]))]

GeneratedDir == <<"_","s","p","a","r","k","i","f","y","-","g","e","n","e","r","a","t","e","d">>

DocsPath(root, relativePath) == root \o <<"/","d","o","c","s","/">> \o relativePath

\* the WorkspacePage of an authored file (prepareWorkspace, the loop over mdxFiles)
AuthoredPage(root, relativePath) ==
  [sourceAbsolutePath |-> DocsPath(root, relativePath),
   relativePath |-> relativePath,
   pagePath |-> toPagePath(relativePath),
   generated |-> "undefined",
   methodBadge |-> <<>>]

writeGeneratedPage(root, pagePath, methodBadge) ==
  LET relativePath == PathNormalize(GeneratedDir \o <<"/">> \o pagePath \o MdxSuffix)
  IN  [sourceAbsolutePath |-> PathNormalize(DocsPath(root, relativePath)),
       relativePath |-> relativePath,
       pagePath |-> pagePath,
       generated |-> "true",
       methodBadge |-> methodBadge]

RECURSIVE GenerateForOperations_NoSkip(_, _, _)
\* a generator that never consults existingPageSet
GenerateForOperations_NoSkip(root, operations, existingPageSet) ==
  IF operations = <<>> THEN [pages |-> <<>>, existing |-> existingPageSet]
  ELSE LET rest == GenerateForOperations_NoSkip(root, Tail(operations),
                                                existingPageSet \cup {Head(operations).pagePath})
       IN  [pages |-> << writeGeneratedPage(root, Head(operations).pagePath,
                                            Head(operations).method) >> \o rest.pages,
            existing |-> rest.existing]

RECURSIVE GenerateForOperations(_, _, _)
\* the inner loop of generateEndpointPages over one bundle's operations
GenerateForOperations(root, operations, existingPageSet) ==
  IF operations = <<>> THEN [pages |-> <<>>, existing |-> existingPageSet]
  ELSE LET operation == Head(operations)
       IN  IF operation.pagePath \in existingPageSet
           THEN GenerateForOperations(root, Tail(operations), existingPageSet)
           ELSE LET rest == GenerateForOperations(root, Tail(operations),
                                                  existingPageSet \cup {operation.pagePath})
                IN  [pages |-> << writeGeneratedPage(root, operation.pagePath,
                                                     operation.method) >> \o rest.pages,
                     existing |-> rest.existing]

RECURSIVE GenerateForBundles_IntroPerBundle(_, _, _, _)
\* a generator that writes an introduction page for every bundle
GenerateForBundles_IntroPerBundle(root, apiRootPath, bundles, existingPageSet) ==
  IF bundles = <<>> THEN <<>>
  ELSE LET introPath == IntroductionPath(apiRootPath)
           operations == GenerateForOperations(root, Head(bundles).operationPages,
                                               existingPageSet \cup {introPath})
       IN  << writeGeneratedPage(root, introPath, <<>>) >> \o operations.pages
           \o GenerateForBundles_IntroPerBundle(root, apiRootPath, Tail(bundles),
                                                operations.existing)

RECURSIVE GenerateForBundles(_, _, _, _)
\* the outer loop of generateEndpointPages
GenerateForBundles(root, apiRootPath, bundles, existingPageSet) ==
  IF bundles = <<>> THEN <<>>
  ELSE LET introPath == IntroductionPath(apiRootPath)
           intro == IF introPath \notin existingPageSet
                    THEN << writeGeneratedPage(root, introPath, <<>>) >>
                    ELSE <<>>
           operations == GenerateForOperations(root, Head(bundles).operationPages,
                                               existingPageSet \cup {introPath})
       IN  intro \o operations.pages
           \o GenerateForBundles(root, apiRootPath, Tail(bundles), operations.existing)

generateEndpointPages(root, apiRootPath, bundles, existingPageSet) ==
  SortSequence("pagePath", GenerateForBundles(root, apiRootPath, bundles, existingPageSet))

\* a validation that looks only at the direct entries of the top-level groups
validateNavigationReferences_TopLevel(docs, pageSet) ==
  LET refs == { docs.navigation[i].pages[j].ref :
                  <<i, j>> \in { p \in (DOMAIN docs.navigation) \X (1..8) :
                                   /\ p[2] \in DOMAIN docs.navigation[p[1]].pages
                                   /\ docs.navigation[p[1]].pages[p[2]].kind = "page" } }
  IN  IF \E ref \in refs : isOperationReference(ref) THEN "unresolved-operation"
      ELSE IF \E ref \in refs : ref \notin pageSet THEN "missing-page"
      ELSE "ok"

\* the first reference that fails decides the error; both are InvalidDocsJson
validateNavigationReferences(docs, pageSet) ==
  LET refs == collectNavigationRefs(docs.navigation)
      bad == { i \in DOMAIN refs : isOperationReference(refs[i]) \/ refs[i] \notin pageSet }
  IN  IF bad = {} THEN "ok"
      ELSE LET first == CHOOSE i \in bad : \A j \in bad : i <= j
           IN  IF isOperationReference(refs[first]) THEN "unresolved-operation"
               ELSE "missing-page"

PagePaths(pages) == [i \in DOMAIN pages |-> pages[i].pagePath]

PagePathSet(pages) == { pages[i].pagePath : i \in DOMAIN pages }

(***************************************************************************)
(* config.ts.  An optional value is UndefinedValue or Defined(v); a section *)
(* (llms, fastapi) is UndefinedValue or a record of optional fields.  Of   *)
(* the sections merged by the same expression (compat, api, renderer,      *)
(* llms) llms stands for all; playground is not modelled.                  *)
(***************************************************************************)
Defined(v) == [kind |-> "value", value |-> v]

IsDefined(x) == x.kind # "undefined"

\* left ?? right
Coalesce(left, right) == IF IsDefined(left) THEN left ELSE right

\* { ...(base ?? {}), ...definedOnly(incoming) } for a section
definedOnly(base, incoming) ==
  [k \in DOMAIN incoming |->
     IF k = "kind" THEN incoming.kind
     ELSE IF IsDefined(incoming[k]) THEN incoming[k]
     ELSE IF IsDefined(base) THEN base[k]
     ELSE UndefinedValue]

\* compat, api, renderer, llms: merged when the override has the section
MergeSection(base, incoming) ==
  IF IsDefined(incoming) THEN definedOnly(base, incoming) ELSE base

\* a merged fastapi section is kept only when it has an app
normalizedFastapi(mergedFastapi) ==
  IF IsDefined(mergedFastapi) /\ IsDefined(mergedFastapi.app) THEN mergedFastapi
  ELSE UndefinedValue

\* { ...base, ...definedOnly(incomingTopLevel) }, one field
mergeTopLevel(baseValue, incomingValue) == Coalesce(incomingValue, baseValue)

mergeConfig(base, incoming) ==
  [base |-> mergeTopLevel(base.base, incoming.base),
   autoNav |-> mergeTopLevel(base.autoNav, incoming.autoNav),
   fastapi |-> normalizedFastapi(MergeSection(base.fastapi, incoming.fastapi)),
   llms |-> MergeSection(base.llms, incoming.llms),
   openapi |-> Coalesce(incoming.openapi, base.openapi)]

\* only the first trailing slash is cut
normalizeBase(base) ==
  IF base = <<>> \/ base = <<"/">> THEN <<>>
  ELSE LET prefixed == IF StartsWith(base, <<"/">>) THEN base ELSE <<"/">> \o base
       IN  IF EndsWith(prefixed, <<"/">>) THEN SubSeq(prefixed, 1, Len(prefixed) - 1)
           ELSE prefixed

EmptyConfig ==
  [base |-> UndefinedValue, autoNav |-> UndefinedValue, fastapi |-> UndefinedValue,
   llms |-> UndefinedValue, openapi |-> UndefinedValue]

\* the fields of DEFAULTS that are modelled; DEFAULTS has no fastapi
DEFAULTS ==
  [base |-> <<>>, autoNav |-> "true", llms |-> [enabled |-> "true"], openapi |-> <<>>]

\* the file as read: {} when it does not exist, InvalidConfig when it is not valid
loadConfigFile(file) ==
  IF file.state = "absent" THEN [outcome |-> "config", config |-> EmptyConfig]
  ELSE IF file.state = "invalid" THEN [outcome |-> "throw", error |-> "InvalidConfig"]
  ELSE [outcome |-> "config", config |-> file.config]

\* value ?? fallback, unwrapped
OrDefault(value, fallback) == IF IsDefined(value) THEN value.value ELSE fallback

toConfigAbsolute(merged) ==
  [base |-> normalizeBase(OrDefault(merged.base, DEFAULTS.base)),
   autoNav |-> OrDefault(merged.autoNav, DEFAULTS.autoNav),
   llms |-> [enabled |-> IF IsDefined(merged.llms)
                         THEN OrDefault(merged.llms.enabled, DEFAULTS.llms.enabled)
                         ELSE DEFAULTS.llms.enabled],
   openapi |-> OrDefault(merged.openapi, DEFAULTS.openapi),
   fastapi |-> merged.fastapi]

resolveConfig(file, incoming) ==
  LET loaded == loadConfigFile(file)
  IN  IF loaded.outcome = "throw" THEN loaded
      ELSE [outcome |-> "config",
            config |-> toConfigAbsolute(mergeConfig(loaded.config, incoming))]

(***************************************************************************)
(* State                                                                   *)
(***************************************************************************)
VARIABLES
  config,            \* the SparkifyConfigV1 handed to prepareWorkspace
  sourceTree,        \* the doc tree on disk: .mdx files, docs.json, mint.json, project metadata
  pc,                \* the step prepareWorkspace has reached
  rootDir,           \* the temporary workspace root of this run
  docsJson,          \* the navigation config being assembled
  loadedNavigation,  \* the navigation as loaded or synthesized, before step 6
  pages,             \* the page list
  openapiBundles,    \* the resolved bundles
  error,             \* the ExitCode of the thrown SparkifyError, and which throw it was
  firstRun,          \* the result of an earlier run over the same inputs
  loadResult,        \* the result of a stand-alone loadDocsConfig call
  restarting,        \* startDevServer: a rebuild is in flight
  pendingRestart,    \* startDevServer: a request arrived while a rebuild was in flight
  state,             \* startDevServer: the DevState (child process, workspace root)
  timer,             \* the debounce timer of debouncedRestart is armed
  running,           \* the restart() activations suspended inside stop() or launch()
  watchLog,          \* counts of what has happened in watch mode so far
  fileConfig,        \* sparkify.config.json as found on disk
  overrides,         \* the ConfigOverrides handed to resolveConfig
  resolvedConfig,    \* what resolveConfig returned or threw
  options,           \* the BuildOptions handed to buildSite
  build,             \* buildSite: its position, its workspace directory, its pending error
  exportRuns,        \* how many times this run has invoked the FastAPI export
  writes,            \* the files this run has written: under the source tree or the workspace
  session            \* startDevServer: workspaces on disk, live children, the shutdown handler

vars ==
  << config, sourceTree, pc, rootDir, docsJson, loadedNavigation, pages,
     openapiBundles, error, firstRun, loadResult,
     restarting, pendingRestart, state, timer, running, watchLog,
     fileConfig, overrides, resolvedConfig, options, build, exportRuns, writes,
     session >>

inputVars == << config, sourceTree >>

cliVars == << fileConfig, overrides, resolvedConfig, options, build >>

watchVars == << restarting, pendingRestart, state, timer, running, watchLog, session >>

\* the DevState after a successful launch() (build.ts 179-199)
Launched == [child |-> "alive", workspaceRoot |-> "workspace", dir |-> 1, proc |-> 1]

\* the workspace directories and dev-server processes of the session that exist, the number
\* of workspaces made so far, the shutdown handler, not yet called, whether the process that
\* runs startDevServer is alive, and how many `void` promises have been rejected
FirstSession ==
  [dirs |-> { 1 }, procs |-> { 1 }, made |-> 1, shutdown |-> [pos |-> "idle", dir |-> 0],
   alive |-> TRUE, rejected |-> 0]

EmptyLog == [changes |-> 0, requests |-> 0, absorbed |-> 0, started |-> 0, finished |-> 0,
             retries |-> 0, batches |-> 0, failed |-> 0]

\* neither resolveConfig nor buildSite has been called: the config was handed in directly
CliIdle ==
  /\ fileConfig = [state |-> "absent"]
  /\ overrides = EmptyConfig
  /\ resolvedConfig = [outcome |-> "none"]
  /\ options = [debug |-> "undefined", strict |-> "undefined"]
  /\ build = [pc |-> "idle", workspace |-> "none", error |-> "none"]

\* startDevServer past its initial launch(), no change seen yet
WatchIdle ==
  /\ restarting = FALSE
  /\ pendingRestart = FALSE
  /\ state = Launched
  /\ timer = FALSE
  /\ running = <<>>
  /\ watchLog = EmptyLog
  /\ session = FirstSession

(***************************************************************************)
(* Bounds and the input catalogue                                          *)
(***************************************************************************)
MaxBundles == 2

MaxPages == 2

Str_index_mdx == IndexPage \o MdxSuffix

Str_guide == <<"g","u","i","d","e">>

Str_api == <<"/","a","p","i">>

Str_intro == <<"a","p","i","/","i","n","t","r","o","d","u","c","t","i","o","n">>

Str_get_w_page == <<"a","p","i","/","w","/","g","e","t","-","w">>

\* the .mdx files a doc tree may hold
MdxCatalogue ==
  { Str_index_mdx, Str_guide \o MdxSuffix, Str_intro \o MdxSuffix, Str_get_w_page \o MdxSuffix }

\* config.docsDir, the doc tree of the project
SourceDocsDir == <<"/","p","/","d","o","c","s">>

Src1 == <<"s","1",".","j","s","o","n">>

Src2 == <<"s","2",".","j","s","o","n">>

SrcMissing == <<"n","f",".","j","s","o","n">>

\* The text of a source: the characters up to its first non-blank one, and whether
\* JSON.parse and YAML.parse accept the whole of it.
RawDocument(opening, json, yaml) == [opening |-> opening, json |-> json, yaml |-> yaml]

JsonDocument == RawDocument(<<"{">>, TRUE, TRUE)

SrcBlockYaml == <<"b",".","y","a","m","l">>

SrcFlowYaml == <<"f",".","y","a","m","l">>

SrcBrokenJson == <<"x",".","j","s","o","n">>

SrcBrokenYaml == <<"g",".","y","a","m","l">>

\* b.yaml: "openapi: 3.0.0 ..."; f.yaml: " {openapi: 3.0.0, ...}", a YAML flow mapping with
\* plain keys; x.json: "{" cut short; g.yaml: "openapi: [" cut short
RawDocuments ==
  (SrcBlockYaml :> RawDocument(<<"o">>, FALSE, TRUE))
  @@ (SrcFlowYaml :> RawDocument(<<" ","{">>, FALSE, TRUE))
  @@ (SrcBrokenJson :> RawDocument(<<"{">>, FALSE, FALSE))
  @@ (SrcBrokenYaml :> RawDocument(<<"o">>, FALSE, FALSE))

\* a schema file named "p::s1.json"
SrcNested == <<"p",":",":">> \o Src1

Op(method, tags, operationId) ==
  [method |-> method, tags |-> tags, operationId |-> operationId]

\* s1.json: GET /w tagged "W"; s2.json: GET and POST /w whose tags and ids slug alike,
\* followed by GET /v tagged "W"
SchemaFiles ==
  (Src1 :> [raw |-> JsonDocument,
            paths |-> << [path |-> <<"/","w">>,
                          ops |-> { Op(<<"g","e","t">>, << <<"W">> >>, <<>>) }] >>])
  @@
  (Src2 :> [raw |-> JsonDocument,
            paths |-> << [path |-> <<"/","w">>,
                          ops |-> { Op(<<"g","e","t">>, << <<"W">> >>, <<"o","p">>),
                                    Op(<<"p","o","s","t">>, << <<"w">> >>, <<"O","p">>) }],
                         [path |-> <<"/","v">>,
                          ops |-> { Op(<<"g","e","t">>, << <<"W">> >>, <<"v">>) }] >>])
  @@
  (SrcNested :> [raw |-> JsonDocument,
                 paths |-> << [path |-> <<"/","n">>,
                               ops |-> { Op(<<"g","e","t">>, << <<"N">> >>, <<>>) }] >>])
  @@
  [source \in DOMAIN RawDocuments |->
     [raw |-> RawDocuments[source],
      paths |-> << [path |-> <<"/","w">>,
                    ops |-> { Op(<<"g","e","t">>, << <<"W">> >>, <<>>) }] >>]]

Entry(id, source) ==
  [id |-> id, source |-> source, route |-> Str_api, title |-> ApiReferenceTitle]

EntryCatalogue ==
  { Entry(<<"a">>, Src1), Entry(<<"b">>, Src2), Entry(<<"a">>, SrcMissing) }

SeqsUpTo(S, n) == UNION { [1..k -> S] : k \in 0..n }

Str_GET_w == <<"G","E","T"," ","/","w">>

Str_GET_w_spaced == <<" ","G","E","T"," ","\t","/","w">>

Str_get_w_lower == <<"g","e","t"," ","/","w">>

Str_POST_w == <<"P","O","S","T"," ","/","w">>

Str_Docs == <<"D","o","c","s">>

Str_Sub == <<"S","u","b">>

\* the raw navigation arrays a docs.json may hold
NavCatalogue ==
  { << GroupItem(Str_Docs, <<>>, << PageItem(Str_guide) >>) >>,
    << GroupItem(Str_Docs, <<>>, << PageItem(IndexPage), PageItem(Str_GET_w) >>) >>,
    << GroupItem(Str_Docs, <<>>,
                 << GroupItem(Str_Sub, <<>>, << PageItem(Str_GET_w_spaced) >>),
                    PageItem(Str_guide) >>) >>,
    << GroupItem(Str_Docs, <<>>,
                 << PageItem(IndexPage),
                    GroupItem(Str_Sub, <<>>, << PageItem(Str_POST_w) >>) >>) >>,
    << GroupItem(<<"R","e","f">>, Src1, << PageItem(Str_intro) >>) >>,
    << GroupItem(Str_Docs, <<>>, << PageItem(Str_get_w_lower) >>) >>,
    << GroupItem(<<" ">>, <<>>, << GroupItem(Str_Sub, <<>>, << PageItem(Str_guide) >>) >>),
       GroupItem(<<"E","m","p","t","y">>, <<>>, <<>>) >> }

MintNavigation == << GroupItem(<<"M","i","n","t">>, <<>>, << PageItem(IndexPage) >>) >>

Str_site == <<"s","i","t","e">>

Str_pkg == <<"p","k","g">>

TmpRoots == { <<"/","w","1">>, <<"/","w","2">> }

\* autoNav and the project metadata are read only when no navigation document is found
NavigationSources ==
  { [docsJson |-> ValidDoc(Str_site, n), mintJson |-> Absent,
     autoNav |-> TRUE, projectName |-> Str_pkg] : n \in NavCatalogue }
  \cup
  { [docsJson |-> Absent, mintJson |-> ValidDoc(Str_site, MintNavigation),
     autoNav |-> TRUE, projectName |-> Str_pkg] }
  \cup
  { [docsJson |-> Absent, mintJson |-> Absent, autoNav |-> a, projectName |-> p] :
      <<a, p>> \in { <<TRUE, Str_pkg>>, <<TRUE, <<>> >>, <<FALSE, Str_pkg>> } }

\* generateMissingEndpointPages is read only in endpoint-pages mode
ApiSettings ==
  { [mode |-> "endpoint-pages", generateMissingEndpointPages |-> TRUE, apiRoot |-> Str_api],
    [mode |-> "endpoint-pages", generateMissingEndpointPages |-> FALSE, apiRoot |-> Str_api],
    [mode |-> "single-page", generateMissingEndpointPages |-> TRUE, apiRoot |-> Str_api] }

\* the state of a run before its first step
RunReset ==
  /\ pc = "start"
  /\ rootDir = <<>>
  /\ docsJson = NullItem
  /\ loadedNavigation = <<>>
  /\ pages = <<>>
  /\ openapiBundles = <<>>
  /\ error = "none"
  /\ exportRuns = 0
  /\ writes = {}

InitPrepare ==
  /\ \E nav \in NavigationSources, mdx \in SUBSET MdxCatalogue,
        entries \in SeqsUpTo(EntryCatalogue, MaxBundles), api \in ApiSettings :
       /\ Cardinality(mdx) <= MaxPages
       /\ config = [autoNav |-> nav.autoNav,
                    openapi |-> entries,
                    compat |-> [preferDocsJson |-> "true", allowMintJson |-> "true"],
                    api |-> api,
                    dirTitleMap |-> <<>>,
                    docsDir |-> SourceDocsDir, writeDocsJson |-> FALSE, fastapi |-> NoFastapi]
       /\ sourceTree = [mdx |-> mdx, docsJson |-> nav.docsJson, mintJson |-> nav.mintJson,
                        projectName |-> nav.projectName]
  /\ RunReset
  /\ firstRun = NullItem
  /\ loadResult = NullItem
  /\ WatchIdle
  /\ CliIdle

(***************************************************************************)
(* prepareWorkspace, step by step                                          *)
(***************************************************************************)
\* every order in which the file system may enumerate a set of files
Enumerations(files) ==
  { order \in [1..Cardinality(files) -> files] : Range(order) = files }

Fail(code) ==
  /\ pc' = "failed"
  /\ error' = code

DocsJsonName == <<"d","o","c","s",".","j","s","o","n">>

\* what fs.cp and fs.copyFile write: the copies of the pages, of the navigation documents
\* and of the project metadata
CopiedFiles(tree, root) ==
  { DocsPath(root, file) : file \in tree.mdx }
  \cup (IF tree.docsJson # Absent THEN { DocsPath(root, DocsJsonName) } ELSE {})
  \cup (IF tree.mintJson # Absent
        THEN { DocsPath(root, <<"m","i","n","t",".","j","s","o","n">>) } ELSE {})
  \cup (IF tree.projectName # <<>>
        THEN { root \o <<"/","p","a","c","k","a","g","e",".","j","s","o","n">> } ELSE {})

\* lines 369-385: mkdtemp, copy of the doc tree and of the project metadata
Materialize ==
  /\ pc = "start"
  /\ \E root \in TmpRoots :
       /\ rootDir' = root
       /\ writes' = writes \cup CopiedFiles(sourceTree, root)
  /\ pc' = "materialized"
  /\ UNCHANGED << inputVars, docsJson, loadedNavigation, pages, openapiBundles, error,
                  firstRun, loadResult, watchVars, cliVars, exportRuns >>

\* docs-json.ts inferProjectName: the copied package.json / pyproject.toml name, else the
\* basename of the directory above the workspace docs directory
inferProjectName(projectName, root) ==
  IF projectName # <<>> THEN projectName ELSE Basename(root)

\* docs-json.ts generateDocsJson, for one enumeration order of the .mdx files
generateDocsJson(order, dirTitleMap, allowEmpty, projectName, root) ==
  LET pagePaths == [i \in DOMAIN order |-> toPagePath(normalizeRelPath(order[i]))]
  IN  IF Len(pagePaths) = 0 /\ ~allowEmpty
      THEN [outcome |-> "throw"]
      ELSE [outcome |-> "ok",
            config |-> [name |-> inferProjectName(projectName, root),
                        navigation |-> buildNavigation(pagePaths, dirTitleMap),
                        configSource |-> "generated"]]

\* lines 415-419: writeDocsJson into the workspace, and into config.docsDir when asked to
WrittenDocsJson(cfg, root) ==
  { DocsPath(root, DocsJsonName) }
  \cup (IF cfg.writeDocsJson THEN { cfg.docsDir \o <<"/">> \o DocsJsonName } ELSE {})

\* lines 387-419: load the navigation document, or synthesize it
LoadNavigation ==
  /\ pc = "materialized"
  /\ LET discovered == loadDocsConfig(sourceTree.docsJson, sourceTree.mintJson, config.compat)
     IN  IF discovered.outcome = "throw"
         THEN Fail("InvalidDocsJson") /\ UNCHANGED << docsJson, loadedNavigation, writes >>
         ELSE IF discovered.config # NullItem
         THEN /\ docsJson' = discovered.config
              /\ loadedNavigation' = discovered.config.navigation
              /\ pc' = "navigation"
              /\ UNCHANGED << error, writes >>
         ELSE IF ~config.autoNav
         THEN Fail("InvalidDocsJson") /\ UNCHANGED << docsJson, loadedNavigation, writes >>
         ELSE \E order \in Enumerations(sourceTree.mdx) :
                LET generated == generateDocsJson(order, config.dirTitleMap,
                                                  Len(config.openapi) > 0 \/ ExportNeeded(config),
                                                  sourceTree.projectName, rootDir)
                IN  IF generated.outcome = "throw"
                    THEN Fail("InvalidDocsJson")
                         /\ UNCHANGED << docsJson, loadedNavigation, writes >>
                    ELSE /\ docsJson' = generated.config
                         /\ loadedNavigation' = generated.config.navigation
                         /\ writes' = writes \cup WrittenDocsJson(config, rootDir)
                         /\ pc' = "navigation"
                         /\ UNCHANGED error
  /\ UNCHANGED << inputVars, rootDir, pages, openapiBundles, firstRun, loadResult, watchVars,
                  cliVars, exportRuns >>

\* the schema the export script writes: GET /e tagged "E"
ExportedSchema ==
  [raw |-> JsonDocument,
   paths |-> << [path |-> <<"/","e">>,
                 ops |-> { Op(<<"g","e","t">>, << <<"E">> >>, <<>>) }] >>]

\* the schema files resolveOpenApiBundles finds under the workspace doc tree: the copies of
\* the project's files, and the exported schema over whatever was at its path
DiskSchemas ==
  IF ExportNeeded(config)
  THEN (sanitizeFastApiExportRelativePath(config) :> ExportedSchema) @@ SchemaFiles
  ELSE SchemaFiles

\* line 434: undefined when no export is configured
FastApiSource ==
  IF ExportNeeded(config) THEN sanitizeFastApiExportRelativePath(config) ELSE <<>>

\* lines 421-435: the export either settles, having written the schema to outPath, or throws;
\* the script cannot write to outPath when that is the workspace doc directory itself
ExportSchema ==
  /\ pc = "navigation"
  /\ ExportNeeded(config)
  /\ exportRuns' = exportRuns + 1
  /\ \E ok \in BOOLEAN :
       IF ok /\ sanitizeFastApiExportRelativePath(config) # <<>>
       THEN /\ writes' = writes \cup { DocsPath(rootDir, sanitizeFastApiExportRelativePath(config)) }
            /\ pc' = "exported"
            /\ UNCHANGED error
       ELSE Fail("GeneralFailure") /\ UNCHANGED writes
  /\ UNCHANGED << inputVars, rootDir, docsJson, loadedNavigation, pages, openapiBundles,
                  firstRun, loadResult, watchVars, cliVars >>

\* a listing that does not wait for a configured export
ReadyToList_Early == pc \in { "navigation", "exported" }

\* lines 421-437: control reaches listMdxPages past the export, or at once without one
ReadyToList == (pc = "navigation" /\ ~ExportNeeded(config)) \/ pc = "exported"

\* docs-json.ts listMdxPages and lines 437-451
ListPages ==
  /\ ReadyToList
  /\ \E order \in Enumerations(sourceTree.mdx) :
       LET listed == SortSequence("pagePath",
                       [i \in DOMAIN order |->
                          [relativePath |-> normalizeRelPath(order[i]),
                           pagePath |-> toPagePath(normalizeRelPath(order[i]))]])
       IN  pages' = [i \in DOMAIN listed |-> AuthoredPage(rootDir, listed[i].relativePath)]
  /\ pc' = "listed"
  /\ UNCHANGED << inputVars, rootDir, docsJson, loadedNavigation, openapiBundles, error,
                  firstRun, loadResult, watchVars, cliVars, exportRuns, writes >>

\* lines 453-462
ResolveBundles ==
  /\ pc = "listed"
  /\ LET resolved == resolveOpenApiBundles(docsJson, ensureOpenApiEntries(config, FastApiSource),
                                           DiskSchemas, config.api.mode, config.api.apiRoot)
     IN  IF resolved.outcome = "throw"
         THEN Fail(resolved.error) /\ UNCHANGED << openapiBundles, writes >>
         ELSE /\ openapiBundles' = resolved.bundles
              /\ writes' = writes \cup { rootDir \o <<"/">> \o resolved.bundles[b].outputAbsolutePath :
                                            b \in DOMAIN resolved.bundles }
              /\ pc' = "resolved"
              /\ UNCHANGED error
  /\ UNCHANGED << inputVars, rootDir, docsJson, loadedNavigation, pages, firstRun, loadResult,
                  watchVars, cliVars, exportRuns >>

EndpointPagesApply == config.api.mode = "endpoint-pages" /\ Len(openapiBundles) > 0

\* line 465
RewriteReferences ==
  /\ pc = "resolved"
  /\ EndpointPagesApply
  /\ LET rewritten == rewriteOperationReferences(docsJson, openapiBundles)
     IN  IF rewritten.outcome = "throw"
         THEN Fail("InvalidDocsJson") /\ UNCHANGED docsJson
         ELSE /\ docsJson' = [docsJson EXCEPT !.navigation = rewritten.navigation]
              /\ pc' = "rewritten"
              /\ UNCHANGED error
  /\ UNCHANGED << inputVars, rootDir, loadedNavigation, pages, openapiBundles,
                  firstRun, loadResult, watchVars, cliVars, exportRuns, writes >>

HomeGroup == GroupItem(GettingStarted, <<>>, << PageItem(IndexPage) >>)

\* lines 467-488: home page, introduction and endpoint pages, navigation additions
SynthesizePages ==
  /\ pc = "rewritten"
  /\ LET apiRootPath == ApiRootPath(config)
         authoredSet == PagePathSet(pages)
         makeHome == config.api.generateMissingEndpointPages /\ IndexPage \notin authoredSet
         withHome == IF makeHome
                     THEN Append(pages, writeGeneratedPage(rootDir, IndexPage, <<>>))
                     ELSE pages
         existingPageSet == IF makeHome THEN authoredSet \cup {IndexPage} ELSE authoredSet
         generatedPages == generateEndpointPages(rootDir, apiRootPath, openapiBundles,
                                                 existingPageSet)
         allPages == IF config.api.generateMissingEndpointPages
                     THEN withHome \o generatedPages
                     ELSE withHome
         hasIndex == \E i \in DOMAIN docsJson.navigation :
                       \E j \in DOMAIN docsJson.navigation[i].pages :
                         docsJson.navigation[i].pages[j] = PageItem(IndexPage)
         withIndex == IF hasIndex THEN docsJson.navigation
                      ELSE << HomeGroup >> \o docsJson.navigation
         withApi == IF hasApiReferenceNavigation([docsJson EXCEPT !.navigation = withIndex],
                                                 apiRootPath)
                    THEN withIndex
                    ELSE withIndex \o buildGeneratedApiNavigation(apiRootPath, openapiBundles)
     IN  /\ pages' = allPages
         /\ docsJson' = [docsJson EXCEPT !.navigation = withApi]
         /\ writes' = writes \cup { written.sourceAbsolutePath : written \in
                                       { withHome[i] : i \in { j \in DOMAIN withHome :
                                                                 withHome[j].generated = "true" } }
                                       \cup { generatedPages[i] : i \in DOMAIN generatedPages } }
  /\ pc' = "synthesized"
  /\ UNCHANGED << inputVars, rootDir, loadedNavigation, openapiBundles, error,
                  firstRun, loadResult, watchVars, cliVars, exportRuns >>

\* line 464, the branch not taken
SkipSynthesis ==
  /\ pc = "resolved"
  /\ ~EndpointPagesApply
  /\ pc' = "synthesized"
  /\ UNCHANGED << inputVars, rootDir, docsJson, loadedNavigation, pages, openapiBundles,
                  error, firstRun, loadResult, watchVars, cliVars, exportRuns, writes >>

\* lines 491-510: validation, then the returned PreparedWorkspace with its sorted page list
ValidateAndReturn ==
  /\ pc = "synthesized"
  /\ LET verdict == validateNavigationReferences(docsJson, PagePathSet(pages))
     IN  IF verdict = "ok"
         THEN /\ pages' = SortSequence("pagePath", pages)
              /\ pc' = "returned"
              /\ UNCHANGED error
         ELSE Fail("InvalidDocsJson") /\ UNCHANGED pages
  /\ UNCHANGED << inputVars, rootDir, docsJson, loadedNavigation, openapiBundles,
                  firstRun, loadResult, watchVars, cliVars, exportRuns, writes >>

NextPrepare ==
  \/ Materialize
  \/ LoadNavigation
  \/ ListPages
  \/ ResolveBundles
  \/ RewriteReferences
  \/ SynthesizePages
  \/ SkipSynthesis
  \/ ValidateAndReturn

Spec == InitPrepare /\ [][NextPrepare]_vars

(***************************************************************************)
(* A second, independent run over the same doc tree and config             *)
(* (test/integration/workspace.deterministic.test.ts)                      *)
(***************************************************************************)
Rerun ==
  /\ pc = "returned"
  /\ firstRun = NullItem
  /\ firstRun' = [docsJson |-> docsJson, pagePaths |-> PagePaths(pages)]
  /\ pc' = "start"
  /\ rootDir' = <<>>
  /\ docsJson' = NullItem
  /\ loadedNavigation' = <<>>
  /\ pages' = <<>>
  /\ openapiBundles' = <<>>
  /\ error' = "none"
  /\ exportRuns' = 0
  /\ writes' = {}
  /\ UNCHANGED << inputVars, loadResult, watchVars, cliVars >>

NextRerun ==
  \/ NextPrepare
  \/ Rerun

SpecRerun == InitPrepare /\ [][NextRerun]_vars

(***************************************************************************)
(* loadDocsConfig on its own, for every state of the two documents and     *)
(* every value of the two options                                          *)
(***************************************************************************)
OptionValues == { "true", "false", "undefined" }

DocumentStates(navigation) == { Absent, Invalid, ValidDoc(Str_site, navigation) }

\* the flat arrays of groups whose other spellings are loaded
LoadNavCatalogue ==
  { << GroupItem(Str_Docs, <<>>, << PageItem(Str_guide) >>) >>,
    << GroupItem(Str_Docs, <<>>, << PageItem(IndexPage) >>),
       GroupItem(<<"R","e","f">>, Src1, << PageItem(Str_intro) >>) >> }

NavigationShapes == { "array", "groups", "keyed", "modern" }

\* { "groups": [...] }
GroupsShape(items) == ObjectValue(<< Member(GroupsKey, ArrayValue(items)) >>)

\* { "<group name>": [pages] } or { "<group name>": { openapi, pages } }
KeyedShape(items) ==
  ObjectValue([i \in DOMAIN items |->
                 Member(items[i].group,
                        IF items[i].openapi = <<>> THEN ArrayValue(items[i].pages)
                        ELSE BareGroup(items[i].openapi, items[i].pages))])

\* { "global": { anchors }, "tabs": [{ tab, groups: [...] }] }
ModernShape(items) ==
  ObjectValue(<< Member(<<"g","l","o","b","a","l">>, BareGroup(<<>>, <<>>)),
                 Member(<<"t","a","b","s">>, ArrayValue(<< TabItem(Str_Docs, items) >>)) >>)

Shaped(shape, items) ==
  CASE shape = "array" -> ArrayValue(items)
    [] shape = "groups" -> GroupsShape(items)
    [] shape = "keyed" -> KeyedShape(items)
    [] shape = "modern" -> ModernShape(items)

ShapedDocuments ==
  { ParsedDoc(Str_site, Shaped(shape, items)) :
      shape \in NavigationShapes, items \in LoadNavCatalogue }
  \cup { ParsedDoc(Str_site, UndefinedValue) }

InitLoad ==
  /\ \E docs \in DocumentStates(<< GroupItem(Str_Docs, <<>>, << PageItem(Str_guide) >>) >>)
                     \cup ShapedDocuments,
        mint \in DocumentStates(MintNavigation),
        prefer \in OptionValues, allow \in OptionValues :
       /\ sourceTree = [mdx |-> {}, docsJson |-> docs, mintJson |-> mint,
                        projectName |-> Str_pkg]
       /\ config = [autoNav |-> TRUE,
                    openapi |-> <<>>,
                    compat |-> [preferDocsJson |-> prefer, allowMintJson |-> allow],
                    api |-> [mode |-> "endpoint-pages",
                             generateMissingEndpointPages |-> TRUE, apiRoot |-> Str_api],
                    dirTitleMap |-> <<>>,
                    docsDir |-> SourceDocsDir, writeDocsJson |-> FALSE, fastapi |-> NoFastapi]
  /\ RunReset
  /\ firstRun = NullItem
  /\ loadResult = NullItem
  /\ WatchIdle
  /\ CliIdle

LoadDocuments ==
  /\ pc = "start"
  /\ loadResult' = loadDocsConfig(sourceTree.docsJson, sourceTree.mintJson, config.compat)
  /\ pc' = "loaded"
  /\ UNCHANGED << inputVars, rootDir, docsJson, loadedNavigation, pages, openapiBundles,
                  error, firstRun, watchVars, cliVars, exportRuns, writes >>

NextLoad == LoadDocuments

SpecLoad == InitLoad /\ [][NextLoad]_vars

(***************************************************************************)
(* Watch mode: startDevServer (build.ts 169-293) after its initial         *)
(* launch().  A step runs from one suspension of the event loop to the     *)
(* next: the timer callback, or the continuation of one awaited operation; *)
(* awaits of already settled promises are continued within the same step.  *)
(***************************************************************************)
MaxChanges == 4

prepareVars ==
  << config, sourceTree, pc, rootDir, docsJson, loadedNavigation, pages, openapiBundles,
     error, firstRun, loadResult, exportRuns, writes >>

InitWatch ==
  /\ sourceTree = [mdx |-> { Str_index_mdx }, docsJson |-> Absent, mintJson |-> Absent,
                   projectName |-> Str_pkg]
  /\ config = [autoNav |-> TRUE,
               openapi |-> <<>>,
               compat |-> [preferDocsJson |-> "true", allowMintJson |-> "true"],
               api |-> [mode |-> "endpoint-pages",
                        generateMissingEndpointPages |-> TRUE, apiRoot |-> Str_api],
               dirTitleMap |-> <<>>,
               docsDir |-> SourceDocsDir, writeDocsJson |-> FALSE, fastapi |-> NoFastapi]
  /\ RunReset
  /\ firstRun = NullItem
  /\ loadResult = NullItem
  /\ WatchIdle
  /\ CliIdle

RemoveAt(s, i) == SubSeq(s, 1, i - 1) \o SubSeq(s, i + 1, Len(s))

\* stop() from `state.child = undefined` to its next suspension: the removal of the workspace,
\* or, with no workspace to remove, prepareWorkspace inside the launch() that follows
stopRelease(st) ==
  LET released == [st EXCEPT !.child = "none", !.proc = 0] IN
  [state |-> released,
   pos |-> IF released.workspaceRoot # "none" THEN "stopCleanup" ELSE "prepare",
   dir |-> released.dir,
   killed |-> 0]

\* stop() from its entry to its first suspension
stopEnter(st) ==
  IF st.child = "alive"
  THEN [state |-> [st EXCEPT !.child = "killed"], pos |-> "stopWait", dir |-> 0,
        killed |-> st.proc]
  ELSE stopRelease(st)

\* the child that got SIGTERM is gone
Killed(ses, proc) == [ses EXCEPT !.procs = @ \ { proc }]

\* a restart() that lets every call through
restartGuard_Open(flag) == FALSE

\* `if (restarting)` at the head of restart()
restartGuard(flag) == flag

\* a finally block that forgets the requests it has absorbed
retryWanted_Never(pending) == FALSE

\* `if (pendingRestart)` in the finally block of restart()
retryWanted(pending) == pending

\* one call of restart(), up to its return or its first suspension
restart(origin, flag, pending, st, frames, log, ses, threw) ==
  IF restartGuard(flag)
  THEN /\ pendingRestart' = TRUE
       /\ restarting' = flag
       /\ state' = st
       /\ running' = frames
       /\ watchLog' = [log EXCEPT !.absorbed = @ + 1]
       /\ session' = ses
  ELSE LET entered == stopEnter(st) IN
       /\ pendingRestart' = pending
       /\ restarting' = TRUE
       /\ state' = entered.state
       /\ running' = Append(frames, [pos |-> entered.pos, origin |-> origin,
                                     dir |-> entered.dir, threw |-> threw])
       /\ watchLog' = [log EXCEPT !.started = @ + 1]
       /\ session' = Killed(ses, entered.killed)

\* the promise of `void restart()` (build.ts 265) or `void shutdown()` (build.ts 287, 290) is
\* rejected and nothing handles it: the runtime ends the process, or only warns, as it was
\* started (--unhandled-rejections)
Unhandled(ses) ==
  { [ses EXCEPT !.rejected = @ + 1, !.alive = survives] : survives \in BOOLEAN }

\* the finally block of restart(), entered when activation i has left stop() and launch();
\* threw: by an exception, which the block passes on when it is done
Finally(i, st, ses, threw) ==
  LET rest == RemoveAt(running, i)
      thrown == threw \/ running[i].threw
      log == [watchLog EXCEPT !.finished = @ + 1,
                              !.failed = @ + (IF threw THEN 1 ELSE 0),
                              !.batches = @ + (IF watchLog.absorbed > 0 THEN 1 ELSE 0),
                              !.absorbed = 0]
  IN  IF retryWanted(pendingRestart)
      THEN restart("retry", FALSE, FALSE, st, rest, [log EXCEPT !.retries = @ + 1], ses,
                   thrown)
      ELSE /\ restarting' = FALSE
           /\ state' = st
           /\ running' = rest
           /\ watchLog' = log
           /\ session' \in (IF thrown THEN Unhandled(ses) ELSE { ses })
           /\ UNCHANGED pendingRestart

\* the watcher reports a change: debouncedRestart() re-arms the timer
FileChange ==
  /\ watchLog.changes < MaxChanges
  /\ session.alive
  /\ session.shutdown.pos = "idle"
  /\ timer' = TRUE
  /\ watchLog' = [watchLog EXCEPT !.changes = @ + 1]
  /\ UNCHANGED << restarting, pendingRestart, state, running, session, prepareVars, cliVars >>

\* the debounce timer fires: `void restart()`
TimerFire ==
  /\ timer
  /\ session.alive
  /\ timer' = FALSE
  /\ restart("request", restarting, pendingRestart, state, running,
             [watchLog EXCEPT !.requests = @ + 1], session, FALSE)
  /\ UNCHANGED << prepareVars, cliVars >>

\* stop() resumes after its 300 ms wait
StopWaited ==
  \E i \in DOMAIN running :
    /\ running[i].pos = "stopWait"
    /\ session.alive
    /\ LET released == stopRelease(state) IN
       /\ state' = released.state
       /\ running' = [running EXCEPT ![i].pos = released.pos, ![i].dir = released.dir]
    /\ UNCHANGED << restarting, pendingRestart, timer, watchLog, session, prepareVars,
                    cliVars >>

\* cleanupWorkspace has removed the directory it was called with
Removed(ses, dir) == [ses EXCEPT !.dirs = @ \ { dir }]

\* mkdtemp inside prepareWorkspace has made the next workspace directory
Made(ses) == [ses EXCEPT !.made = @ + 1, !.dirs = @ \cup { ses.made + 1 }]

\* spawn() has started the dev server of workspace dir
Spawned(ses, dir) == [ses EXCEPT !.procs = @ \cup { dir }]

\* stop() resumes after cleanupWorkspace, and launch() is entered; or fs.rm has rejected
StopCleaned ==
  \E i \in DOMAIN running, ok \in BOOLEAN :
    /\ running[i].pos = "stopCleanup"
    /\ session.alive
    /\ IF ok
       THEN /\ state' = [state EXCEPT !.workspaceRoot = "none", !.dir = 0]
            /\ running' = [running EXCEPT ![i].pos = "prepare", ![i].dir = 0]
            /\ session' = Removed(session, running[i].dir)
            /\ UNCHANGED << restarting, pendingRestart, watchLog >>
       ELSE Finally(i, state, session, TRUE)
    /\ UNCHANGED << timer, prepareVars, cliVars >>

\* launch(): prepareWorkspace settles
LaunchPrepared ==
  \E i \in DOMAIN running, ok \in BOOLEAN, made \in BOOLEAN :
    /\ running[i].pos = "prepare"
    /\ session.alive
    /\ IF ok
       THEN /\ made
            /\ running' = [running EXCEPT ![i].pos = "generate", ![i].dir = session.made + 1]
            /\ session' = Made(session)
            /\ UNCHANGED << restarting, pendingRestart, state, watchLog >>
       ELSE Finally(i, state, IF made THEN Made(session) ELSE session, TRUE)
    /\ UNCHANGED << timer, prepareVars, cliVars >>

\* launch(): generateAstroProject settles, and on success the dev server is spawned
LaunchGenerated ==
  \E i \in DOMAIN running, ok \in BOOLEAN :
    /\ running[i].pos = "generate"
    /\ session.alive
    /\ IF ok
       THEN Finally(i, [Launched EXCEPT !.dir = running[i].dir, !.proc = running[i].dir],
                    Spawned(session, running[i].dir), FALSE)
       ELSE Finally(i, state, session, TRUE)
    /\ UNCHANGED << timer, prepareVars, cliVars >>

NextWatch ==
  \/ FileChange
  \/ TimerFire
  \/ StopWaited
  \/ StopCleaned
  \/ LaunchPrepared
  \/ LaunchGenerated

SpecWatch == InitWatch /\ [][NextWatch]_vars

(***************************************************************************)
(* Watch mode with the shutdown handler of startDevServer (build.ts        *)
(* 280-292): watcher.close(), then stop(), then resolve()                  *)
(***************************************************************************)
\* where shutdown() stands after a step of its stop(): past stop() it resolves
ShutdownPos(pos) == IF pos = "prepare" THEN "done" ELSE pos

\* SIGINT or SIGTERM arrives: shutdown() is called and suspends in watcher.close()
ShutdownSignal ==
  /\ session.alive
  /\ session.shutdown.pos = "idle"
  /\ session' = [session EXCEPT !.shutdown.pos = "closing"]
  /\ UNCHANGED << restarting, pendingRestart, state, timer, running, watchLog, prepareVars,
                  cliVars >>

\* the watcher has closed: shutdown() enters stop()
ShutdownClosed ==
  /\ session.alive
  /\ session.shutdown.pos = "closing"
  /\ LET entered == stopEnter(state) IN
     /\ state' = entered.state
     /\ session' = [Killed(session, entered.killed) EXCEPT
                      !.shutdown = [pos |-> ShutdownPos(entered.pos), dir |-> entered.dir]]
  /\ UNCHANGED << restarting, pendingRestart, timer, running, watchLog, prepareVars, cliVars >>

\* the stop() of shutdown() resumes after its 300 ms wait
ShutdownWaited ==
  /\ session.alive
  /\ session.shutdown.pos = "stopWait"
  /\ LET released == stopRelease(state) IN
     /\ state' = released.state
     /\ session' = [session EXCEPT
                      !.shutdown = [pos |-> ShutdownPos(released.pos), dir |-> released.dir]]
  /\ UNCHANGED << restarting, pendingRestart, timer, running, watchLog, prepareVars, cliVars >>

\* the stop() of shutdown() resumes after cleanupWorkspace, and shutdown() resolves; or
\* fs.rm has rejected, and shutdown() with it
ShutdownCleaned ==
  /\ session.alive
  /\ session.shutdown.pos = "stopCleanup"
  /\ \E ok \in BOOLEAN :
       IF ok
       THEN /\ state' = [state EXCEPT !.workspaceRoot = "none", !.dir = 0]
            /\ session' = [Removed(session, session.shutdown.dir) EXCEPT
                             !.shutdown = [pos |-> "done", dir |-> 0]]
       ELSE /\ session' \in Unhandled([session EXCEPT !.shutdown.pos = "failed"])
            /\ UNCHANGED state
  /\ UNCHANGED << restarting, pendingRestart, timer, running, watchLog, prepareVars, cliVars >>

NextShutdown ==
  \/ NextWatch
  \/ ShutdownSignal
  \/ ShutdownClosed
  \/ ShutdownWaited
  \/ ShutdownCleaned

SpecShutdown == InitWatch /\ [][NextShutdown]_vars

(***************************************************************************)
(* resolveConfig on its own, for every state of the config file and a      *)
(* catalogue of overrides                                                  *)
(***************************************************************************)
Str_docs == <<"d","o","c","s">>

Optional(values) == { UndefinedValue } \cup { Defined(v) : v \in values }

LlmsSections(values) ==
  { UndefinedValue } \cup { [kind |-> "section", enabled |-> e] : e \in Optional(values) }

FastapiSection(app, python) == [kind |-> "section", app |-> app, python |-> python]

\* a file that passes configSchema has an app in its fastapi section
FileConfigs ==
  [base : Optional({ <<"/","f">> }),
   autoNav : Optional({ "false" }),
   llms : LlmsSections({ "false" }),
   fastapi : { UndefinedValue,
               FastapiSection(Defined(<<"m",":","a">>), Defined(<<"p","y","2">>)) },
   openapi : Optional({ << Entry(<<"a">>, Src1) >> })]

OverrideBases ==
  { <<>>, <<"/">>, <<"/","/">>, Str_docs, <<"/">> \o Str_docs \o <<"/">>,
    <<"/">> \o Str_docs \o <<"/","/">> }

ConfigOverrides ==
  [base : Optional(OverrideBases),
   autoNav : Optional({ "true" }),
   llms : LlmsSections({ "true" }),
   fastapi : { UndefinedValue,
               FastapiSection(UndefinedValue, Defined(<<"p","y","3">>)),
               FastapiSection(Defined(<<"n",":","a">>), UndefinedValue) },
   openapi : Optional({ <<>> })]

\* the variables of prepareWorkspace, loadDocsConfig and watch mode, not in use
PrepareUnused ==
  /\ config = NullItem
  /\ sourceTree = NullItem
  /\ RunReset
  /\ firstRun = NullItem
  /\ loadResult = NullItem
  /\ WatchIdle

InitConfig ==
  /\ fileConfig \in { [state |-> "absent"], [state |-> "invalid"] }
                      \cup { [state |-> "valid", config |-> c] : c \in FileConfigs }
  /\ overrides \in ConfigOverrides
  /\ resolvedConfig = [outcome |-> "none"]
  /\ options = [debug |-> "undefined", strict |-> "undefined"]
  /\ build = [pc |-> "idle", workspace |-> "none", error |-> "none"]
  /\ PrepareUnused

ResolveConfig ==
  /\ resolvedConfig.outcome = "none"
  /\ resolvedConfig' = resolveConfig(fileConfig, overrides)
  /\ UNCHANGED << prepareVars, watchVars, fileConfig, overrides, options, build >>

NextConfig == ResolveConfig

SpecConfig == InitConfig /\ [][NextConfig]_vars

(***************************************************************************)
(* buildSite (build.ts 131-161).  A step runs from one await to the next;  *)
(* prepareWorkspace, generateAstroProject, the astro build and the link    *)
(* check each either settle or throw.  build.workspace is the temporary    *)
(* root: "none" before mkdtemp, then its path, then "removed".             *)
(***************************************************************************)
InitBuild ==
  /\ options \in [debug : OptionValues, strict : OptionValues]
  /\ build = [pc |-> "start", workspace |-> "none", error |-> "none"]
  /\ fileConfig = [state |-> "absent"]
  /\ overrides = EmptyConfig
  /\ resolvedConfig = [outcome |-> "none"]
  /\ PrepareUnused

\* a step inside the try block throws: control passes to the finally block
Thrown(b, code) == [b EXCEPT !.pc = "finally", !.error = code]

\* the finally block on a failed build only
buildFinally_SuccessOnly(b, opts) ==
  [b EXCEPT !.workspace = IF opts.debug # "true" /\ b.error = "none" THEN "removed" ELSE @,
            !.pc = IF b.error = "none" THEN "done" ELSE "failed"]

\* the finally block: cleanupWorkspace unless options.debug, then return or rethrow
buildFinally(b, opts) ==
  [b EXCEPT !.workspace = IF opts.debug # "true" THEN "removed" ELSE @,
            !.pc = IF b.error = "none" THEN "done" ELSE "failed"]

\* line 133: outside the try block, so a throw leaves buildSite at once
BuildPrepare ==
  /\ build.pc = "start"
  /\ \E root \in TmpRoots, ok \in BOOLEAN :
       build' = IF ok THEN [build EXCEPT !.pc = "prepared", !.workspace = root]
                ELSE [build EXCEPT !.pc = "failed", !.workspace = root, !.error = "prepare"]
  /\ UNCHANGED << prepareVars, watchVars, fileConfig, overrides, resolvedConfig, options >>

\* line 136
BuildGenerate ==
  /\ build.pc = "prepared"
  /\ \E ok \in BOOLEAN :
       build' = IF ok THEN [build EXCEPT !.pc = "generated"] ELSE Thrown(build, "generate")
  /\ UNCHANGED << prepareVars, watchVars, fileConfig, overrides, resolvedConfig, options >>

\* lines 139-151: the astro build, then the link check when options.strict
BuildRender ==
  /\ build.pc = "generated"
  /\ \E ok \in BOOLEAN :
       build' = IF ~ok THEN Thrown(build, "render")
                ELSE IF options.strict = "true" THEN [build EXCEPT !.pc = "rendered"]
                ELSE [build EXCEPT !.pc = "finally"]
  /\ UNCHANGED << prepareVars, watchVars, fileConfig, overrides, resolvedConfig, options >>

\* line 150: validateInternalLinks
BuildCheckLinks ==
  /\ build.pc = "rendered"
  /\ \E ok \in BOOLEAN :
       build' = IF ok THEN [build EXCEPT !.pc = "finally"] ELSE Thrown(build, "links")
  /\ UNCHANGED << prepareVars, watchVars, fileConfig, overrides, resolvedConfig, options >>

\* lines 154-160
BuildFinally ==
  /\ build.pc = "finally"
  /\ build' = buildFinally(build, options)
  /\ UNCHANGED << prepareVars, watchVars, fileConfig, overrides, resolvedConfig, options >>

NextBuild ==
  \/ BuildPrepare
  \/ BuildGenerate
  \/ BuildRender
  \/ BuildCheckLinks
  \/ BuildFinally

SpecBuild == InitBuild /\ [][NextBuild]_vars

(***************************************************************************)
(* openapi.ts resolveOpenApiBundles on its own: the entries of the config  *)
(* followed by the sources of the navigation, over sources that can all be *)
(* read.                                                                   *)
(***************************************************************************)
\* entries sharing an id, ids that slugify alike, and ids and sources that hold "::"
ResolveCatalogue ==
  { Entry(<<"a">>, Src1), Entry(<<"a">>, Src2), Entry(<<"A">>, Src1),
    Entry(<<"a">>, SrcNested), Entry(<<"a",":",":","p">>, Src1),
    Entry(<<"b">>, SrcBlockYaml), Entry(<<"f">>, SrcFlowYaml),
    Entry(<<"x">>, SrcBrokenJson), Entry(<<"g">>, SrcBrokenYaml) }

ResolveNavigations ==
  { << GroupItem(Str_Docs, <<>>, << PageItem(Str_guide) >>) >>,
    << GroupItem(<<"R","e","f">>, Src1, << PageItem(Str_intro) >>),
       GroupItem(<<"a">>, Src2, <<>>) >> }

InitResolve ==
  /\ \E entries \in SeqsUpTo(ResolveCatalogue, MaxBundles + 1),
        nav \in ResolveNavigations,
        mode \in { "endpoint-pages", "single-page" } :
       /\ config = [autoNav |-> TRUE,
                    openapi |-> entries,
                    compat |-> [preferDocsJson |-> "true", allowMintJson |-> "true"],
                    api |-> [mode |-> mode, generateMissingEndpointPages |-> TRUE,
                             apiRoot |-> Str_api],
                    dirTitleMap |-> <<>>,
                    docsDir |-> SourceDocsDir, writeDocsJson |-> FALSE, fastapi |-> NoFastapi]
       /\ sourceTree = [mdx |-> {}, docsJson |-> ValidDoc(Str_site, nav), mintJson |-> Absent,
                        projectName |-> Str_pkg]
       /\ docsJson = [name |-> Str_site, navigation |-> nav, configSource |-> "docs.json"]
       /\ loadedNavigation = nav
  /\ pc = "listed"
  /\ rootDir \in TmpRoots
  /\ pages = <<>>
  /\ openapiBundles = <<>>
  /\ error = "none"
  /\ exportRuns = 0
  /\ writes = {}
  /\ firstRun = NullItem
  /\ loadResult = NullItem
  /\ WatchIdle
  /\ CliIdle

NextResolve == ResolveBundles

SpecResolve == InitResolve /\ [][NextResolve]_vars

(***************************************************************************)
(* docs-json.ts buildNavigation, reached through the synthesis branch of   *)
(* prepareWorkspace: no navigation document, autoNav on.                   *)
(***************************************************************************)
Str_Zeta == <<"Z","e","t","a">>

Str_Alpha == <<"A","l","p","h","a">>

Str_api_index == <<"a","p","i","/","i","n","d","e","x">>

Str_api_a_index == <<"a","p","i","/","a","/","i","n","d","e","x">>

\* pages at the root, in the directories api, b and Zed, one two levels deep, the index
\* page of api and the index page of its subdirectory a
SynthesisCatalogue ==
  { Str_index_mdx, Str_guide \o MdxSuffix, Str_intro \o MdxSuffix,
    Str_get_w_page \o MdxSuffix,
    <<"b","/","x">> \o MdxSuffix, <<"Z","e","d","/","y">> \o MdxSuffix,
    Str_api_index \o MdxSuffix, Str_api_a_index \o MdxSuffix }

\* no titles, or titles whose order is the reverse of the order of their directories
DirTitleMaps == { <<>>, (<<"a","p","i">> :> Str_Zeta) @@ (<<"b">> :> Str_Alpha) }

InitSynthesis ==
  /\ \E mdx \in SUBSET SynthesisCatalogue, titles \in DirTitleMaps :
       /\ Cardinality(mdx) <= MaxPages + 1
       /\ config = [autoNav |-> TRUE,
                    openapi |-> <<>>,
                    compat |-> [preferDocsJson |-> "true", allowMintJson |-> "true"],
                    api |-> [mode |-> "endpoint-pages", generateMissingEndpointPages |-> TRUE,
                             apiRoot |-> Str_api],
                    dirTitleMap |-> titles,
                    docsDir |-> SourceDocsDir, writeDocsJson |-> FALSE, fastapi |-> NoFastapi]
       /\ sourceTree = [mdx |-> mdx, docsJson |-> Absent, mintJson |-> Absent,
                        projectName |-> Str_pkg]
  /\ pc = "materialized"
  /\ rootDir \in TmpRoots
  /\ docsJson = NullItem
  /\ loadedNavigation = <<>>
  /\ pages = <<>>
  /\ openapiBundles = <<>>
  /\ error = "none"
  /\ exportRuns = 0
  /\ writes = {}
  /\ firstRun = NullItem
  /\ loadResult = NullItem
  /\ WatchIdle
  /\ CliIdle

NextSynthesis == LoadNavigation

SpecSynthesis == InitSynthesis /\ [][NextSynthesis]_vars

(***************************************************************************)
(* prepareWorkspace over projects that may configure a FastAPI export and  *)
(* writeDocsJson.                                                          *)
(***************************************************************************)
\* exportPath undefined, inside the doc tree, beside it, in a sibling whose name starts
\* like it, and the doc tree itself
ExportPaths ==
  { <<>>,
    SourceDocsDir \o <<"/","a","p","i","/","o",".","j","s","o","n">>,
    <<"/","p","/","o",".","j","s","o","n">>,
    SourceDocsDir \o <<"2","/","o",".","j","s","o","n">>,
    SourceDocsDir }

\* a navigation document, one whose nested group declares a schema source, and none
ExportNavigationSources ==
  { [docsJson |-> ValidDoc(Str_site, << GroupItem(Str_Docs, <<>>, << PageItem(Str_guide) >>) >>),
     autoNav |-> TRUE],
    [docsJson |-> ValidDoc(Str_site, << GroupItem(Str_Docs, <<>>,
                                                  << PageItem(Str_guide),
                                                     GroupItem(Str_Sub, Src1, <<>>) >>) >>),
     autoNav |-> TRUE],
    [docsJson |-> Absent, autoNav |-> TRUE],
    [docsJson |-> Absent, autoNav |-> FALSE] }

\* api.apiRoot is any string (config.ts 52): the usual one, one that climbs within the
\* workspace, and one that climbs out of it
ExportApiRoots ==
  { Str_api,
    <<"/",".",".","/","x">>,
    <<"/",".",".","/",".",".","/",".",".">> \o SourceDocsDir \o Str_api }

InitExport ==
  /\ \E nav \in ExportNavigationSources,
        mdx \in SUBSET { Str_index_mdx, Str_guide \o MdxSuffix },
        entries \in { <<>>, << Entry(<<"a">>, Src1) >> },
        mode \in { "endpoint-pages", "single-page" },
        fastapi \in { NoFastapi } \cup { Fastapi(exportPath) : exportPath \in ExportPaths },
        writeDocs \in BOOLEAN,
        apiRoot \in ExportApiRoots :
       /\ Cardinality(mdx) <= MaxPages
       /\ config = [autoNav |-> nav.autoNav,
                    openapi |-> entries,
                    compat |-> [preferDocsJson |-> "true", allowMintJson |-> "true"],
                    api |-> [mode |-> mode, generateMissingEndpointPages |-> TRUE,
                             apiRoot |-> apiRoot],
                    dirTitleMap |-> <<>>,
                    docsDir |-> SourceDocsDir, writeDocsJson |-> writeDocs, fastapi |-> fastapi]
       /\ sourceTree = [mdx |-> mdx, docsJson |-> nav.docsJson, mintJson |-> Absent,
                        projectName |-> Str_pkg]
  /\ RunReset
  /\ firstRun = NullItem
  /\ loadResult = NullItem
  /\ WatchIdle
  /\ CliIdle

NextExport == NextPrepare \/ ExportSchema

SpecExport == InitExport /\ [][NextExport]_vars

(***************************************************************************)
(* Properties of prepareWorkspace                                          *)
(***************************************************************************)
RECURSIVE StringEntries(_)
\* the string entries of a navigation tree, at any depth
StringEntries(items) ==
  UNION { IF items[i].kind = "page" THEN { items[i].ref } ELSE StringEntries(items[i].pages) :
          i \in DOMAIN items }

\* the string entries that sit inside a nested group
NestedStringEntries(navigation) ==
  UNION { UNION { IF navigation[i].pages[j].kind = "group"
                  THEN StringEntries(navigation[i].pages[j].pages)
                  ELSE {} : j \in DOMAIN navigation[i].pages } : i \in DOMAIN navigation }

\* the operations of every bundle of the run
RunOperations ==
  UNION { Range(openapiBundles[b].operationPages) : b \in DOMAIN openapiBundles }

\* a shorthand reference names an operation: "METHOD /path" after whitespace normalization
ReferenceNames(ref, operation) ==
  CollapseWhitespace(Trim(ref)) = operation.method \o <<" ">> \o operation.path

Returned == pc = "returned"

\* C1: in a returned workspace every string entry of the navigation, at any depth, is the
\* pagePath of a page of the returned page list
NavigationRefsResolve ==
  Returned => \A ref \in StringEntries(docsJson.navigation) :
                \E i \in DOMAIN pages : pages[i].pagePath = ref

\* a returned workspace in endpoint-pages mode with bundles whose navigation has a nested entry
NavigationRefsResolveWitness ==
  /\ Returned
  /\ EndpointPagesApply
  /\ NestedStringEntries(docsJson.navigation) # {}
  /\ Len(pages) > Cardinality(sourceTree.mdx)

RECURSIVE ItemResolved(_, _)
\* the entry `after` stands where `before` stood: a shorthand reference became the page path
\* of an operation it names, everything else is unchanged
ItemResolved(before, after) ==
  IF before.kind = "page"
  THEN IF isOperationReference(before.ref)
       THEN /\ after.kind = "page"
            /\ \E operation \in RunOperations :
                 ReferenceNames(before.ref, operation) /\ after.ref = operation.pagePath
       ELSE after = before
  ELSE /\ after.kind = "group"
       /\ after.group = before.group
       /\ Len(after.pages) = Len(before.pages)
       /\ \A j \in DOMAIN before.pages : ItemResolved(before.pages[j], after.pages[j])

\* C2: in endpoint-pages mode with bundles, the returned navigation holds, at the position of
\* every shorthand reference of the loaded navigation, the page path of an operation with that
\* method and path, and no shorthand reference remains at any depth
ShorthandRewritten ==
  (Returned /\ EndpointPagesApply) =>
    /\ \E offset \in {0, 1} :
         /\ Len(docsJson.navigation) >= offset + Len(loadedNavigation)
         /\ \A i \in DOMAIN loadedNavigation :
              ItemResolved(loadedNavigation[i], docsJson.navigation[offset + i])
    /\ \A ref \in StringEntries(docsJson.navigation) : ~isOperationReference(ref)

\* a returned workspace whose loaded navigation held a nested shorthand reference
ShorthandRewrittenWitness ==
  /\ Returned
  /\ EndpointPagesApply
  /\ \E ref \in NestedStringEntries(loadedNavigation) : isOperationReference(ref)
  /\ Len(openapiBundles) > 1

UnmatchedShorthand ==
  { ref \in StringEntries(loadedNavigation) :
      /\ isOperationReference(ref)
      /\ \A operation \in RunOperations : ~ReferenceNames(ref, operation) }

\* C3: in endpoint-pages mode with bundles, a shorthand reference that names no operation of
\* any bundle makes prepareWorkspace fail with InvalidDocsJson: the run never gets past the
\* rewrite and returns no workspace
UnmatchedShorthandFails ==
  (EndpointPagesApply /\ UnmatchedShorthand # {} /\ pc # "resolved") =>
    (pc = "failed" /\ error = "InvalidDocsJson")

\* a failed run whose unmatched reference sat in a nested group
UnmatchedShorthandFailsWitness ==
  /\ pc = "failed"
  /\ error = "InvalidDocsJson"
  /\ EndpointPagesApply
  /\ UnmatchedShorthand \cap NestedStringEntries(loadedNavigation) # {}

\* the (bundle, index) positions of the operations of the run
OperationPositions ==
  UNION { { <<b, i>> : i \in DOMAIN openapiBundles[b].operationPages } :
          b \in DOMAIN openapiBundles }

\* C4: no two operations of one resolver run, of the same bundle or of different bundles,
\* receive the same pagePath
OperationPagePathsDistinct ==
  \A p, q \in OperationPositions :
    p # q => openapiBundles[p[1]].operationPages[p[2]].pagePath
             # openapiBundles[q[1]].operationPages[q[2]].pagePath

PastListing == pc \in {"listed", "resolved", "rewritten", "synthesized", "returned"}

\* C5: for every page path of an authored file there is exactly one page, and it is the
\* authored one: generated is not set and its source is the copy of the authored file
AuthoredPagesWin ==
  PastListing =>
    \A file \in sourceTree.mdx :
      LET at == { i \in DOMAIN pages : pages[i].pagePath = toPagePath(file) }
      IN  /\ Cardinality(at) = 1
          /\ \A i \in at :
               /\ pages[i].generated = "undefined"
               /\ pages[i].sourceAbsolutePath
                    = rootDir \o <<"/","d","o","c","s","/">> \o file

\* a returned workspace where generation was on and authored files held the home page path,
\* the introduction path or an operation's page path
AuthoredPagesWinWitness ==
  /\ Returned
  /\ EndpointPagesApply
  /\ config.api.generateMissingEndpointPages
  /\ \E file \in sourceTree.mdx :
       toPagePath(file) \in { operation.pagePath : operation \in RunOperations }
  /\ \E file \in sourceTree.mdx : toPagePath(file) \in { IndexPage, Str_intro }
  /\ \E i \in DOMAIN pages : pages[i].generated = "true"

\* C6: the page list of a returned workspace has no two entries with the same pagePath
PagePathsUnique ==
  Returned => \A i, j \in DOMAIN pages : i # j => pages[i].pagePath # pages[j].pagePath

\* a returned workspace with authored and generated pages from two bundles
PagePathsUniqueWitness ==
  /\ Returned
  /\ Len(openapiBundles) = 2
  /\ sourceTree.mdx # {}
  /\ \E i \in DOMAIN pages : pages[i].generated = "true" /\ pages[i].methodBadge # <<>>

\* C7: a second run over the same doc tree and config returns the same navigation config and
\* the same ordered page-path list as the first
RunsAgree ==
  (Returned /\ firstRun # NullItem) =>
    /\ docsJson = firstRun.docsJson
    /\ PagePaths(pages) = firstRun.pagePaths

\* left sorts before right by tag, then path, then method, each compared by localeCompare
OperationPrecedes(left, right) ==
  \/ LocaleCompare(left.tag, right.tag) < 0
  \/ left.tag = right.tag /\ LocaleCompare(left.path, right.path) < 0
  \/ left.tag = right.tag /\ left.path = right.path
       /\ LocaleCompare(left.method, right.method) < 0

OperationKeys(operations) ==
  [i \in DOMAIN operations |-> << operations[i].tag, operations[i].path, operations[i].method >>]

\* the same document with its paths listed in reverse
ReversePaths(schema) ==
  [paths |-> [i \in DOMAIN schema.paths |-> schema.paths[Len(schema.paths) + 1 - i]]]

\* C14: in every bundle of endpoint-pages mode, each operation precedes the next by
\* (tag, path, method), and the order is the one obtained from the document with its paths
\* listed in reverse
OperationsOrdered ==
  \A b \in DOMAIN openapiBundles :
    /\ \A i \in 1..(Len(openapiBundles[b].operationPages) - 1) :
         OperationPrecedes(openapiBundles[b].operationPages[i],
                           openapiBundles[b].operationPages[i + 1])
    /\ config.api.mode = "endpoint-pages" =>
         OperationKeys(openapiBundles[b].operationPages)
           = OperationKeys(buildOperationPages(ReversePaths(SchemaFiles[openapiBundles[b].source]),
                                               config.api.apiRoot))

\* a returned bundle of three operations whose first is not the first of its document
OperationsOrderedWitness ==
  /\ Returned
  /\ \E b \in DOMAIN openapiBundles :
       /\ Len(openapiBundles[b].operationPages) = 3
       /\ openapiBundles[b].operationPages[1].method = <<"P","O","S","T">>
       /\ openapiBundles[b].operationPages[2].path = <<"/","v">>

ResolvedAlone == pc = "resolved"

EntryPair(entry) == << entry.id, entry.source >>

\* the list resolveOpenApiBundles works on: explicit entries, then navigation sources
ResolveInput ==
  config.openapi
    \o deriveNavigationEntries(docsJson, IF config.api.mode = "single-page"
                                         THEN <<"/","a","p","i">> ELSE config.api.apiRoot)

FirstOccurrence(pair, entries) ==
  CHOOSE i \in DOMAIN entries :
    /\ EntryPair(entries[i]) = pair
    /\ \A j \in DOMAIN entries : EntryPair(entries[j]) = pair => i <= j

\* every (id, source) pair of the input has a bundle, and no bundle has another pair
BundlesCoverInput ==
  ResolvedAlone =>
    { EntryPair(openapiBundles[b]) : b \in DOMAIN openapiBundles }
      = { EntryPair(ResolveInput[i]) : i \in DOMAIN ResolveInput }

\* no two bundles have the same pair, and bundles follow the first occurrences of their pairs
BundlesInInputOrder ==
  ResolvedAlone =>
    \A b, c \in DOMAIN openapiBundles :
      b < c =>
        /\ EntryPair(openapiBundles[b]) # EntryPair(openapiBundles[c])
        /\ \E i, j \in DOMAIN ResolveInput :
             /\ i < j
             /\ EntryPair(ResolveInput[i]) = EntryPair(openapiBundles[b])
             /\ EntryPair(ResolveInput[j]) = EntryPair(openapiBundles[c])
             /\ \A k \in 1..(j - 1) : EntryPair(ResolveInput[k]) # EntryPair(openapiBundles[c])
             /\ \A k \in 1..(i - 1) : EntryPair(ResolveInput[k]) # EntryPair(openapiBundles[b])

\* C15: resolveOpenApiBundles returns exactly one bundle per distinct (id, source) pair of
\* the explicit entries followed by the navigation sources, in order of first occurrence
OneBundlePerPair == BundlesCoverInput /\ BundlesInInputOrder

\* the source whose document the file at path holds once the loop has ended: every source
\* is written to its bundle path in turn, so the last bundle of that path wrote it
WrittenArtifact(bundles, path) ==
  bundles[CHOOSE b \in DOMAIN bundles :
            /\ bundles[b].outputAbsolutePath = path
            /\ \A c \in DOMAIN bundles : bundles[c].outputAbsolutePath = path => c <= b].source

\* C18: after resolveOpenApiBundles returns, no two bundles share an artifact path and the
\* file at each bundle's outputAbsolutePath holds the document of that bundle's own source
ArtifactsKept ==
  ResolvedAlone =>
    /\ \A b, c \in DOMAIN openapiBundles :
         b # c => openapiBundles[b].outputAbsolutePath # openapiBundles[c].outputAbsolutePath
    /\ \A b \in DOMAIN openapiBundles :
         SchemaFiles[WrittenArtifact(openapiBundles, openapiBundles[b].outputAbsolutePath)]
           = SchemaFiles[openapiBundles[b].source]

Synthesized == pc = "navigation" /\ docsJson.configSource = "generated"

InputPagePaths == { toPagePath(file) : file \in sourceTree.mdx }

RootPagePaths == { page \in InputPagePaths : ~Includes(page, "/") }

TopLevelDir(page) == SplitOn(page, "/")[1]

TopLevelDirs == { TopLevelDir(page) : page \in InputPagePaths \ RootPagePaths }

GroupRefs(group) == { group.pages[i].ref : i \in DOMAIN group.pages }

\* the number of leading groups that hold the root pages: one if there are any
RootGroups == IF RootPagePaths = {} THEN 0 ELSE 1

\* the first group is "Getting Started" and holds the pages without a directory segment
RootPagesFirst ==
  RootPagePaths # {} =>
    /\ docsJson.navigation[1].group = GettingStarted
    /\ GroupRefs(docsJson.navigation[1]) = RootPagePaths

\* then one group per top-level directory, holding the pages of that directory
OneGroupPerDirectory ==
  /\ Len(docsJson.navigation) = RootGroups + Cardinality(TopLevelDirs)
  /\ \A g \in (RootGroups + 1)..Len(docsJson.navigation) :
       \E dir \in TopLevelDirs :
         GroupRefs(docsJson.navigation[g])
           = { page \in InputPagePaths \ RootPagePaths : TopLevelDir(page) = dir }

\* the directory groups are in the localeCompare order of their directory names
DirectoriesAscend ==
  \A g \in (RootGroups + 1)..(Len(docsJson.navigation) - 1) :
    LocaleCompare(TopLevelDir(docsJson.navigation[g].pages[1].ref),
                  TopLevelDir(docsJson.navigation[g + 1].pages[1].ref)) < 0

\* every input page path is listed once, in one group
EachPageOnce ==
  \A page \in InputPagePaths :
    Cardinality({ << g, i >> \in (DOMAIN docsJson.navigation) \X (1..Cardinality(InputPagePaths)) :
                    /\ i \in DOMAIN docsJson.navigation[g].pages
                    /\ docsJson.navigation[g].pages[i].ref = page }) = 1

\* C16: the synthesized navigation puts the pages without a directory segment in a first
\* group "Getting Started", followed by one group per top-level directory in the order of
\* the directory names, and lists every input page path in exactly one group
DefaultNavigationLayout ==
  Synthesized =>
    RootPagesFirst /\ OneGroupPerDirectory /\ DirectoriesAscend /\ EachPageOnce

\* root pages and two directories whose titles are in the reverse order of their names
DefaultNavigationLayoutWitness ==
  /\ Synthesized
  /\ Len(docsJson.navigation) = 3
  /\ docsJson.navigation[1].group = GettingStarted
  /\ docsJson.navigation[2].group = Str_Zeta
  /\ docsJson.navigation[3].group = Str_Alpha

\* the index page of the bucket that group g of the synthesized navigation holds
BucketIndex(g) ==
  IF g <= RootGroups THEN IndexPage
  ELSE TopLevelDir(docsJson.navigation[g].pages[1].ref) \o <<"/">> \o IndexPage

\* C21: in every synthesized group that holds the index page of its bucket, that page is
\* the first entry
BucketIndexFirst ==
  Synthesized =>
    \A g \in DOMAIN docsJson.navigation :
      BucketIndex(g) \in GroupRefs(docsJson.navigation[g])
        => docsJson.navigation[g].pages[1].ref = BucketIndex(g)

\* C22: resolveOpenApiBundles fails over a source's content only when some source of its
\* input is neither valid JSON nor valid YAML
RejectsOnlyUnparseable ==
  (pc = "failed" /\ \A i \in DOMAIN ResolveInput : ResolveInput[i].source \in DOMAIN SchemaFiles)
    => \E i \in DOMAIN ResolveInput :
         /\ ~SchemaFiles[ResolveInput[i].source].raw.json
         /\ ~SchemaFiles[ResolveInput[i].source].raw.yaml

\* the steps of prepareWorkspace before the export, and those after it
BeforeExport == pc \in { "start", "materialized", "navigation" }

AfterExport == pc \in { "exported", "listed", "resolved", "rewritten", "synthesized", "returned" }

\* the export was the step that failed: nothing was listed or resolved
ExportFailed == pc = "failed" /\ error = "GeneralFailure"

\* C23: a configured export runs exactly once, after the navigation is there and before
\* pages are listed and bundles resolved; when it fails, prepareWorkspace fails with no page
\* listed and no bundle resolved
ExportedOnceInOrder ==
  /\ exportRuns <= 1
  /\ BeforeExport => exportRuns = 0
  /\ exportRuns = 1 => ExportNeeded(config) /\ docsJson # NullItem
  /\ AfterExport => exportRuns = (IF ExportNeeded(config) THEN 1 ELSE 0)
  /\ ExportFailed => exportRuns = 1 /\ pages = <<>> /\ openapiBundles = <<>>

\* a run that exported once and returned with the bundle of the exported schema
ExportedOnceInOrderWitness ==
  /\ Returned
  /\ exportRuns = 1
  /\ Len(pages) > 0
  /\ \E b \in DOMAIN openapiBundles : openapiBundles[b].source = FastApiSource

\* a run whose export threw
ExportFailedWitness == ExportFailed /\ docsJson # NullItem

\* the step of prepareWorkspace that may append the API section
ApiSectionStep == pc = "rewritten" /\ pc' = "synthesized"

\* no entry at any depth is the API root or lies under it, and no group declares a source
NoApiReference ==
  /\ collectOpenApiRefs(docsJson.navigation) = <<>>
  /\ \A ref \in Range(collectNavigationRefs(docsJson.navigation)) :
       ref # ApiRootPath(config) /\ ~StartsWith(ref, ApiRootPath(config) \o <<"/">>)

\* the navigation after the step: the groups it had, behind a home group or not, and the
\* API section behind them or not
NavigationWith(section) ==
  \E home \in { <<>>, << HomeGroup >> } :
    docsJson'.navigation = home \o docsJson.navigation \o section

\* C24: in endpoint-pages mode with bundles, the API section is appended once behind the
\* unchanged groups if the rewritten navigation has no entry at or under the API root and
\* no group with a schema source, and is not appended otherwise
ApiSectionIffUnreferenced ==
  [][ApiSectionStep =>
       IF NoApiReference
       THEN NavigationWith(buildGeneratedApiNavigation(ApiRootPath(config), openapiBundles))
       ELSE NavigationWith(<<>>)]_vars

\* the step put a home group in front of the groups the navigation had
HomeAdded ==
  /\ Len(docsJson'.navigation) > Len(docsJson.navigation)
  /\ docsJson'.navigation[1] = HomeGroup
  /\ SubSeq(docsJson'.navigation, 2, Len(docsJson.navigation) + 1) = docsJson.navigation

\* the entries of the groups the step added: the home group and the API section
AddedRefs ==
  Range(collectNavigationRefs(
          (IF HomeAdded THEN << HomeGroup >> ELSE <<>>)
          \o SubSeq(docsJson'.navigation,
                    Len(docsJson.navigation) + (IF HomeAdded THEN 2 ELSE 1),
                    Len(docsJson'.navigation))))

\* C25: every navigation entry step 6 adds is the pagePath of a page of the page set that
\* step 7 validates against
AddedEntriesHavePages ==
  [][ApiSectionStep => AddedRefs \subseteq PagePathSet(pages')]_vars

GeneratedIntroductions ==
  { i \in DOMAIN pages :
      /\ pages[i].generated = "true"
      /\ pages[i].pagePath = IntroductionPath(ApiRootPath(config)) }

\* C17: in endpoint-pages mode with page generation on and no authored page at the
\* introduction path, the returned pages hold one generated introduction page per bundle
IntroductionPerBundle ==
  (/\ Returned
   /\ config.api.mode = "endpoint-pages"
   /\ config.api.generateMissingEndpointPages
   /\ IntroductionPath(ApiRootPath(config)) \notin InputPagePaths)
    => Cardinality(GeneratedIntroductions) = Len(openapiBundles)

\* the step that ends prepareWorkspace with "was not resolved to a generated endpoint page"
FailsAsUnresolvedOperation ==
  /\ pc = "synthesized"
  /\ pc' = "failed"
  /\ validateNavigationReferences(docsJson, PagePathSet(pages)) = "unresolved-operation"

\* C20: prepareWorkspace fails with "was not resolved to a generated endpoint page" only
\* in runs whose navigation went through rewriteOperationReferences
UnresolvedOnlyAfterRewrite == [][FailsAsUnresolvedOperation => EndpointPagesApply]_vars

\* the method and the path of a shorthand reference, after its whitespace is normalized
ReferenceParts(ref) ==
  LET normalized == CollapseWhitespace(Trim(ref))
      space == CHOOSE i \in DOMAIN normalized :
                 normalized[i] = " " /\ \A j \in 1..(i - 1) : normalized[j] # " "
  IN  [method |-> SubSeq(normalized, 1, space - 1),
       path |-> SubSeq(normalized, space + 1, Len(normalized))]

\* the reference names an operation of a bundle, its method read without regard to case
NamesOperation(ref, bundles) ==
  \E bundle \in DOMAIN bundles : \E operation \in DOMAIN bundles[bundle].operationPages :
    /\ ToUpperCase(ReferenceParts(ref).method)
         = ToUpperCase(bundles[bundle].operationPages[operation].method)
    /\ ReferenceParts(ref).path = bundles[bundle].operationPages[operation].path

\* rewriteOperationReferences runs
RewriteStep == pc = "resolved" /\ EndpointPagesApply /\ pc' \in { "rewritten", "failed" }

ReportedUnknown ==
  rewriteOperationReferencesInItems(docsJson.navigation,
                                    buildOperationReferenceMap(openapiBundles)).unresolved

\* C30: a navigation string that isOperationReference accepts and that names an operation
\* of a bundle is resolved by the rewrite, and is not among the references it reports as
\* unknown operations
RecognizedAreResolved ==
  [][RewriteStep =>
       \A i \in DOMAIN ReportedUnknown : ~NamesOperation(ReportedUnknown[i], openapiBundles)]_vars

(***************************************************************************)
(* Properties of loadDocsConfig                                            *)
(***************************************************************************)
Loaded == pc = "loaded"

PreferDocs == config.compat.preferDocsJson # "false"

AllowMint == config.compat.allowMintJson # "false"

DocsValid ==
  /\ sourceTree.docsJson.state = "valid"
  /\ SchemaAcceptsNavigation(sourceTree.docsJson.navigation)

MintValid ==
  /\ sourceTree.mintJson.state = "valid"
  /\ SchemaAcceptsNavigation(sourceTree.mintJson.navigation)

\* C10: the document is selected by flag: with both present and valid, docs.json when
\* preferDocsJson holds, mint.json when it does not and mint.json is allowed; mint.json is
\* neither selected nor read when it is not allowed; a valid document that is the only allowed
\* one present is selected whatever preferDocsJson says
SelectedByFlag ==
  Loaded =>
    /\ (DocsValid /\ MintValid /\ PreferDocs) => loadResult.source = "docs.json"
    /\ (DocsValid /\ MintValid /\ ~PreferDocs /\ AllowMint) => loadResult.source = "mint.json"
    /\ ~AllowMint => (loadResult.source # "mint.json" /\ "mint.json" \notin Range(loadResult.reads))
    /\ (DocsValid /\ (sourceTree.mintJson.state = "absent" \/ ~AllowMint))
         => loadResult.source = "docs.json"
    /\ (MintValid /\ AllowMint /\ sourceTree.docsJson.state = "absent")
         => loadResult.source = "mint.json"

\* both documents valid, docs.json not preferred, mint.json allowed and selected
SelectedByFlagWitness ==
  /\ Loaded
  /\ DocsValid
  /\ MintValid
  /\ config.compat.preferDocsJson = "false"
  /\ AllowMint
  /\ loadResult.source = "mint.json"
  /\ loadResult.reads = << "mint.json" >>

\* C11: a docs.json whose navigation is spelled in any supported shape (flat array,
\* {groups}, object keyed by group name, {global, tabs}) loads without error and gives the
\* NavigationGroup tree of the equivalent flat array
ShapesNormalizeAlike ==
  (Loaded /\ PreferDocs) =>
    \A shape \in NavigationShapes, items \in LoadNavCatalogue :
      sourceTree.docsJson = ParsedDoc(Str_site, Shaped(shape, items)) =>
        /\ loadResult.outcome = "config"
        /\ loadResult.config.navigation = normalizeNavigation(ArrayValue(items))

(***************************************************************************)
(* Properties of watch mode                                                *)
(***************************************************************************)
\* C8: at most one rebuild (the stop-then-launch sequence of restart) is executing at any time
RebuildsSerialized == Len(running) <= 1

\* a request has arrived while a rebuild was in flight
RebuildsSerializedWitness ==
  /\ Len(running) = 1
  /\ restarting
  /\ pendingRestart
  /\ watchLog.absorbed >= 1

Rank(pos) ==
  CASE pos = "stopWait" -> 1
    [] pos = "stopCleanup" -> 2
    [] pos = "prepare" -> 3
    [] pos = "generate" -> 4

CoalescedRetryStep ==
  \* a request that arrives during a rebuild starts nothing and leaves the rebuild as it is
  /\ (watchLog'.requests > watchLog.requests /\ running # <<>>) =>
       (running' = running /\ watchLog'.started = watchLog.started)
  \* a retry starts in the step in which the rebuild in flight leaves launch(), or stop()
  \* by an exception
  /\ (watchLog'.retries > watchLog.retries) =>
       /\ Len(running) = 1
       /\ running[1].pos \in { "stopCleanup", "prepare", "generate" }
       /\ watchLog'.finished = watchLog.finished + 1
       /\ watchLog'.retries = watchLog.retries + 1
       /\ watchLog'.started = watchLog.started + 1
  \* a rebuild in flight moves forward through stop() and launch() only
  /\ (Len(running) = 1 /\ Len(running') = 1 /\ watchLog'.started = watchLog.started) =>
       Rank(running'[1].pos) >= Rank(running[1].pos)
  \* one retry for every rebuild that absorbed requests, however many it absorbed
  /\ watchLog'.retries = watchLog'.batches

\* C9: the requests that arrive while a rebuild is in flight get exactly one further rebuild,
\* started only when the rebuild in flight has left stop() and launch(), and the rebuild in
\* flight is not interrupted between its steps
CoalescedRetry == [][CoalescedRetryStep]_vars

\* three requests, two of them absorbed by the first rebuild, answered by one retry
CoalescedRetryWitness ==
  /\ watchLog.requests = 3
  /\ watchLog.started = 2
  /\ watchLog.retries = 1
  /\ watchLog.finished = 2
  /\ running = <<>>

FailedRebuildStep ==
  \* while the flag is set, an activation of restart() is inside stop() or launch()
  /\ restarting' => running' # <<>>
  \* stop() or launch() throws: the retry asked for meanwhile starts, or else the flag is clear
  /\ (watchLog'.failed > watchLog.failed) =>
       IF pendingRestart
       THEN /\ watchLog'.retries = watchLog.retries + 1
            /\ watchLog'.started = watchLog.started + 1
            /\ Len(running') = 1
            /\ ~pendingRestart'
       ELSE ~restarting'
  \* a request that finds the flag clear starts a rebuild
  /\ (watchLog'.requests > watchLog.requests /\ ~restarting) =>
       (restarting' /\ watchLog'.started = watchLog.started + 1)
  \* and the process that takes the requests goes on
  /\ session'.alive

\* C27: a rebuild that fails does not lock the loop: the flag is set only while a rebuild is
\* executing; when stop() or launch() throws the flag is cleared, the retry requested
\* meanwhile runs, and the loop goes on to start a rebuild for a later request
FailedRebuildRecovers == [][FailedRebuildStep]_vars

\* C28: at any time at most one workspace directory made by the session exists: the one a
\* launch() made is removed by the stop() of the next rebuild or of shutdown(), also when
\* prepareWorkspace or generateAstroProject failed in that launch()
OneWorkspaceAtMost == Cardinality(session.dirs) <= 1

Under(dir, path) == StartsWith(path, dir \o <<"/">>)

NavigationGenerated == docsJson # NullItem /\ docsJson.configSource = "generated"

\* C29: whatever prepareWorkspace has written lies under the temporary workspace root, but
\* for docs.json in the source doc directory, written when writeDocsJson is set and the
\* navigation was synthesized; nothing else under the source doc directory is touched
WritesStayInWorkspace ==
  \A path \in writes :
    \/ Under(rootDir, path) /\ ~Under(config.docsDir, path)
    \/ /\ path = config.docsDir \o <<"/">> \o DocsJsonName
       /\ config.writeDocsJson
       /\ NavigationGenerated

ShutdownDone == session.shutdown.pos = "done"

\* C26: once shutdown() has resolved, no dev-server child of the session is running and no
\* workspace directory of the session is left, whatever rebuild was in flight and whether or
\* not the debounce timer was armed when the signal came
ShutdownLeavesNothing == ShutdownDone => (session.procs = {} /\ session.dirs = {})

(***************************************************************************)
(* Properties of resolveConfig                                             *)
(***************************************************************************)
Resolved == resolvedConfig.outcome = "config"

FileValues == IF fileConfig.state = "valid" THEN fileConfig.config ELSE EmptyConfig

FieldOf(section, name) == IF IsDefined(section) THEN section[name] ELSE UndefinedValue

\* the override when it is defined, else the file value when it is defined, else the default
Prevailing(override, fileValue, default) ==
  OrDefault(override, OrDefault(fileValue, default))

\* precedence for the top-level fields, the llms section and openapi
PrecedenceOutsideFastapi ==
  /\ resolvedConfig.config.base
       = normalizeBase(Prevailing(overrides.base, FileValues.base, DEFAULTS.base))
  /\ resolvedConfig.config.autoNav
       = Prevailing(overrides.autoNav, FileValues.autoNav, DEFAULTS.autoNav)
  /\ resolvedConfig.config.llms.enabled
       = Prevailing(FieldOf(overrides.llms, "enabled"), FieldOf(FileValues.llms, "enabled"),
                    DEFAULTS.llms.enabled)
  /\ resolvedConfig.config.openapi
       = Prevailing(overrides.openapi, FileValues.openapi, DEFAULTS.openapi)

\* precedence for the fields of the fastapi section, which has no default
PrecedenceInFastapi ==
  \A name \in { "app", "python" } :
    FieldOf(resolvedConfig.config.fastapi, name)
      = Coalesce(FieldOf(overrides.fastapi, name), FieldOf(FileValues.fastapi, name))

\* C12: every field of the resolved config is the override when it is defined, else the file
\* value when the file defines it, else the default; a missing file is an empty one, no error
OverridesPrevail ==
  /\ (fileConfig.state = "absent" /\ resolvedConfig.outcome # "none") => Resolved
  /\ Resolved => (PrecedenceOutsideFastapi /\ PrecedenceInFastapi)

\* C19: the resolved base is empty, or starts with "/" and does not end with "/", and
\* normalizing it again leaves it unchanged
BaseNormalized ==
  Resolved =>
    /\ \/ resolvedConfig.config.base = <<>>
       \/ /\ StartsWith(resolvedConfig.config.base, <<"/">>)
          /\ ~EndsWith(resolvedConfig.config.base, <<"/">>)
    /\ normalizeBase(resolvedConfig.config.base) = resolvedConfig.config.base

(***************************************************************************)
(* Properties of buildSite                                                 *)
(***************************************************************************)
BuildEnded == build.pc \in { "done", "failed" }

====
